---- MODULE Spec2Model ----
(***************************************************************************)
(* FlashLearnEMS content-protection core: device fingerprint and identity  *)
(* store (lib/device-fingerprint.ts), encrypted license storage            *)
(* (lib/encryption.ts), license manager and rate limiter (lib/license.ts). *)
(*                                                                         *)
(* Optional values (null / undefined / a missing localStorage key) are     *)
(* sequences of length 0 or 1: <<>> is "absent", <<v>> is "present".       *)
(***************************************************************************)
EXTENDS Integers, Sequences, FiniteSets, TLC

VARIABLES
    localStorage,   \* window.localStorage: key -> <<>> | <<value>>
    env,            \* the ambient environment: the components a capture reads
    now,            \* Date.now()
    requests,       \* RateLimiter.requests
    blocked,        \* RateLimiter.blocked
    blockUntil,     \* RateLimiter.blockUntil
    calls,          \* history: the limiter's canProceed and reset calls, oldest first
    fnCalls,        \* history: how often an operation wrapped by withRateLimit ran
    last,           \* history: the API call that has just returned, and its result
    inflight,       \* the async license calls suspended at an await, with their locals
    hook            \* useContentProtection: its React state and the intervals it has set

vars ==
    <<localStorage, env, now, requests, blocked, blockUntil, calls, fnCalls, last,
      inflight, hook>>

None == <<>>
Some(v) == <<v>>

(***************************************************************************)
(* Bounds of the model.                                                    *)
(***************************************************************************)
\* how many ordinary attributes of the environment may drift from the baseline
MaxDrift == 3
\* how many canProceed calls one behaviour of the rate-limiter makes
MaxCalls == 3
\* how many steps of GATE_STEP_MS the gate's clock makes from 0
MaxGateTicks == 13
\* the last instant of the identity store's clock
MaxDeviceTime == 2
\* how many protection violations are logged on top of the earlier ones
MaxLogAppends == 2
\* how many block durations the evidence logs' clock advances
MaxLogTicks == 1
\* how many devices the persisted license state is opened on
NumLicenseDevices == 3

(***************************************************************************)
(* localStorage keys.                                                      *)
(***************************************************************************)
LICENSE_KEY == "chapterflash_license"
HASH_KEY == "chapterflash_license_hash"
ACTIVATION_KEY == "chapterflash_activation_date"
DEVICE_KEY == "chapterflash_device"
EK_KEY == "chapterflash_ek"
LOGS_KEY == "chapterflash_security_logs"
VIOLATIONS_KEY == "chapterflash_violations"

StorageKeys ==
    {LICENSE_KEY, HASH_KEY, ACTIVATION_KEY, DEVICE_KEY, EK_KEY, LOGS_KEY, VIOLATIONS_KEY}

getItem(ls, k) == ls[k]
setItem(ls, k, v) == [ls EXCEPT ![k] = Some(v)]
removeItem(ls, k) == [ls EXCEPT ![k] = None]

EmptyStorage == [k \in StorageKeys |-> None]

(***************************************************************************)
(* Device fingerprint (lib/device-fingerprint.ts).                         *)
(***************************************************************************)
\* the keys of `components`, in the order Object.entries walks them
ComponentKeys ==
    << "canvas", "userAgent", "language", "timezone", "screen", "colorDepth",
       "platform", "hardwareConcurrency", "deviceMemory", "touchSupport", "vendor" >>

ComponentKeySet == {ComponentKeys[i] : i \in 1..Len(ComponentKeys)}

\* the keys other than deviceMemory, in order
OrdinaryKeys == SelectSeq(ComponentKeys, LAMBDA k : k # "deviceMemory")

\* navigator.deviceMemory || undefined
MemoryHints == {"undefined", "v8"}

IndexOf(seq, x) == CHOOSE i \in 1..Len(seq) : seq[i] = x

\* The environment whose first k ordinary attributes differ from the baseline
\* and whose memory hint is mem.
EnvOf(k, mem) ==
    [key \in ComponentKeySet |->
        IF key = "deviceMemory" THEN mem
        ELSE IF IndexOf(OrdinaryKeys, key) <= k THEN "v1" ELSE "v0"]

Envs == {EnvOf(k, mem) : k \in 0..MaxDrift, mem \in MemoryHints}

\* the environments of the devices a license is carried between
LicenseEnvs == {EnvOf(k, "undefined") : k \in 0..(NumLicenseDevices - 1)}

\* Object.entries(components).map(([key, value]) => `${key}:${value}`).join('|')
CompositeString(components) ==
    [i \in 1..Len(ComponentKeys) |-> <<ComponentKeys[i], components[ComponentKeys[i]]>>]

\* CryptoJS.SHA256(text).toString(): a collision-free digest of the text
Sha256Hex(data) == <<"sha256", data>>

\* the attribute values an environment shows, numbered
ValueCode(value) ==
    CASE value = "v0" -> 0 [] value = "v1" -> 1 [] value = "undefined" -> 2 [] value = "v8" -> 3

\* crypto.subtle.digest('SHA-256', encode(compositeString)), hex-encoded: a
\* collision-free digest, here the composite's values read as a base-4 numeral
RECURSIVE DigestFrom(_, _)
DigestFrom(composite, i) ==
    IF i > Len(composite) THEN 0
    ELSE ValueCode(composite[i][2]) + 4 * DigestFrom(composite, i + 1)

Sha256OfComposite(composite) == DigestFrom(composite, 1)

\* JSON.parse(JSON.stringify(components)): a property whose value is undefined
\* is dropped by JSON.stringify
JsonComponents(components) ==
    [key \in {k \in DOMAIN components : components[k] # "undefined"} |-> components[key]]

\* a capture whose id is salted with the capture time
getDeviceFingerprintSalted(e, t) ==
    [id |-> Sha256OfComposite(CompositeString(e)) + t, components |-> e, timestamp |-> t]

\* getDeviceFingerprint(): the in-memory fingerprint
getDeviceFingerprint(e, t) ==
    [id |-> Sha256OfComposite(CompositeString(e)), components |-> e, timestamp |-> t]

\* JSON.stringify(fingerprint) as it is read back by JSON.parse
JsonFingerprint(fp) ==
    [id |-> fp.id, components |-> JsonComponents(fp.components), timestamp |-> fp.timestamp]

\* a similarity over the keys of the fresh capture
calculateSimilarityOverFresh(a, b) ==
    LET keys == DOMAIN b
        matches == Cardinality({key \in keys : key \in DOMAIN a /\ a[key] = b[key]})
    IN  [matches |-> matches, total |-> Cardinality(keys)]

\* calculateSimilarity(a, b) = matches / keys.length, kept as the exact fraction
calculateSimilarity(a, b) ==
    LET keys == DOMAIN a
        matches == Cardinality({key \in keys : key \in DOMAIN b /\ a[key] = b[key]})
    IN  [matches |-> matches, total |-> Cardinality(keys)]

\* similarityScore > 0.8 on the quotient matches / total (0.8 = 4/5)
VerifyThreshold(score) == score.matches * 5 > 4 * score.total

\* a registerDevice that stores the fresh fingerprint also on a mismatch
registerDeviceOverwriting(ls, e, t) ==
    LET existingData == getItem(ls, DEVICE_KEY)
        fingerprint == getDeviceFingerprint(e, t)
    IN  [ret |-> existingData = None,
         ls |-> setItem(ls, DEVICE_KEY, JsonFingerprint(fingerprint))]

\* registerDevice(): <<returned value, localStorage afterwards>>
registerDevice(ls, e, t) ==
    LET existingData == getItem(ls, DEVICE_KEY)
        fingerprint == getDeviceFingerprint(e, t)
        stored == setItem(ls, DEVICE_KEY, JsonFingerprint(fingerprint))
    IN  IF existingData = None THEN [ret |-> TRUE, ls |-> stored]
        ELSE IF existingData[1].id # fingerprint.id THEN [ret |-> FALSE, ls |-> ls]
        ELSE [ret |-> FALSE, ls |-> stored]

\* a getDeviceId that captures and stores on every call
getDeviceIdRecapturing(ls, e, t) ==
    LET fingerprint == getDeviceFingerprint(e, t)
    IN  [ret |-> fingerprint.id,
         ls |-> setItem(ls, DEVICE_KEY, JsonFingerprint(fingerprint))]

\* getDeviceId(): <<the id, localStorage afterwards>>
getDeviceId(ls, e, t) ==
    LET existingData == getItem(ls, DEVICE_KEY)
        fingerprint == getDeviceFingerprint(e, t)
    IN  IF existingData # None THEN [ret |-> existingData[1].id, ls |-> ls]
        ELSE [ret |-> fingerprint.id,
              ls |-> setItem(ls, DEVICE_KEY, JsonFingerprint(fingerprint))]

\* a verifyDevice that trusts the first use without registering it
verifyDeviceWithoutRegistering(ls, e, t) ==
    LET existingData == getItem(ls, DEVICE_KEY)
        current == getDeviceFingerprint(e, t)
    IN  IF existingData = None THEN [ret |-> TRUE, ls |-> ls]
        ELSE [ret |-> VerifyThreshold(
                          calculateSimilarity(existingData[1].components, current.components)),
              ls |-> ls]

\* verifyDevice(): <<returned value, localStorage afterwards>>
verifyDevice(ls, e, t) ==
    LET existingData == getItem(ls, DEVICE_KEY)
        current == getDeviceFingerprint(e, t)
    IN  IF existingData = None THEN [ret |-> TRUE, ls |-> registerDevice(ls, e, t).ls]
        ELSE [ret |-> VerifyThreshold(
                          calculateSimilarity(existingData[1].components, current.components)),
              ls |-> ls]

(***************************************************************************)
(* Encryption (lib/encryption.ts).                                         *)
(***************************************************************************)
\* CryptoJS.lib.WordArray.random(32).toString(): 256 random bits never repeat
\* a key already in use, so the key drawn is one that no stored ciphertext and
\* no stored key holds
EncKeys == {"ek1", "ek2", "ek3"}

KeysInUse(ls) ==
    {ls[k][1] : k \in {k \in {EK_KEY} : ls[k] # None}}
        \cup {ls[k][1].ek : k \in {k \in {LICENSE_KEY} : ls[k] # None}}

RandomKey(ls) == CHOOSE k \in EncKeys : k \notin KeysInUse(ls)

\* getEncryptionKey(): rnd is the key drawn when none is stored
getEncryptionKey(ls, rnd) ==
    IF getItem(ls, EK_KEY) # None
    THEN [ret |-> getItem(ls, EK_KEY)[1], ls |-> ls]
    ELSE [ret |-> rnd, ls |-> setItem(ls, EK_KEY, rnd)]

\* JSON.stringify(data) / JSON.parse(text) of a License: every field is a
\* string, a number, null or an array of strings, so the text determines the
\* value and the value the text
JsonStringify(data) == [json |-> data]
JsonParse(text) == text.json

\* CryptoJS.AES.encrypt(jsonString, key).toString()
AesEncrypt(text, key) == [ek |-> key, plaintext |-> text]

\* encryptData(data)
encryptData(ls, data, rnd) ==
    LET k == getEncryptionKey(ls, rnd)
    IN  [ret |-> AesEncrypt(JsonStringify(data), k.ret), ls |-> k.ls]

\* decryptData(encryptedData): ok = FALSE when it throws (a foreign key or a
\* corrupted ciphertext decrypts to no UTF-8 text)
decryptData(ls, encryptedData, rnd) ==
    LET k == getEncryptionKey(ls, rnd)
    IN  IF encryptedData.ek = k.ret
        THEN [ok |-> TRUE, ret |-> Some(JsonParse(encryptedData.plaintext)), ls |-> k.ls]
        ELSE [ok |-> FALSE, ret |-> None, ls |-> k.ls]

\* hashData(data) = CryptoJS.SHA256(JSON.stringify(data)).toString()
hashData(data) == Sha256Hex(JsonStringify(data))

(***************************************************************************)
(* License keys (lib/license.ts): a key is its sequence of characters.     *)
(***************************************************************************)
UpperAlnum ==
    { "A", "B", "C", "D", "E", "F", "G", "H", "I", "J", "K", "L", "M",
      "N", "O", "P", "Q", "R", "S", "T", "U", "V", "W", "X", "Y", "Z",
      "0", "1", "2", "3", "4", "5", "6", "7", "8", "9" }

KEY_PREFIX == << "C", "F", "E", "M", "T" >>

\* a format check that looks at the length, the prefix and the dashes only
isValidLicenseFormatAnyCharacter(key) ==
    /\ Len(key) = Len(KEY_PREFIX) + 4 * 6
    /\ \A i \in 1..Len(key) :
          IF i <= Len(KEY_PREFIX) THEN key[i] = KEY_PREFIX[i]
          ELSE (i - Len(KEY_PREFIX)) % 6 = 1 => key[i] = "-"

\* /^CFEMT-[A-Z0-9]{5}-[A-Z0-9]{5}-[A-Z0-9]{5}-[A-Z0-9]{5}$/.test(key)
isValidLicenseFormat(key) ==
    /\ Len(key) = Len(KEY_PREFIX) + 4 * 6
    /\ \A i \in 1..Len(key) :
          IF i <= Len(KEY_PREFIX) THEN key[i] = KEY_PREFIX[i]
          ELSE IF (i - Len(KEY_PREFIX)) % 6 = 1 THEN key[i] = "-"
          ELSE key[i] \in UpperAlnum

SegLetters == << "A", "B", "C", "D", "E" >>
SegDigits == << "1", "2", "3", "4", "5" >>
SegLower == << "A", "B", "c", "D", "E" >>
SegShort == << "A", "B", "C", "D" >>
SegLong == << "A", "B", "C", "D", "E", "F" >>
Dash == << "-" >>

JoinKey(prefix, segs, sep) ==
    LET RECURSIVE Join(_)
        Join(i) == IF i > Len(segs) THEN <<>> ELSE sep \o segs[i] \o Join(i + 1)
    IN  prefix \o Join(1)

ValidKeys ==
    { JoinKey(KEY_PREFIX, <<SegLetters, SegDigits, SegLetters, SegDigits>>, Dash) }

MalformedKeys ==
    { JoinKey(KEY_PREFIX, <<SegLetters, SegLower, SegLetters, SegDigits>>, Dash),
      JoinKey(KEY_PREFIX, <<SegLetters, SegDigits, SegLetters, SegShort>>, Dash),
      JoinKey(KEY_PREFIX, <<SegLetters, SegDigits, SegLetters, SegLong>>, Dash),
      JoinKey(KEY_PREFIX, <<SegLetters, SegDigits, SegLetters, SegDigits>>, << "_" >>),
      JoinKey(<< "X" >> \o KEY_PREFIX, <<SegLetters, SegDigits, SegLetters, SegDigits>>, Dash),
      <<>> }

\* the licenseKey arguments the license manager is called with: none, the
\* empty string, a well-formed key, a malformed key of the right length
KeyArgs ==
    {None, Some(<<>>),
     Some(JoinKey(KEY_PREFIX, <<SegLetters, SegLower, SegLetters, SegDigits>>, Dash))}
        \cup {Some(k) : k \in ValidKeys}

\* Math.random() gives k / RANDOM_DENOM for some k in 0..RANDOM_DENOM - 1: a
\* number from 0 up to, and not including, 1
RANDOM_DENOM == 72

\* const chars = 'ABCDEFGHIJKLMNOPQRSTUVWXYZ0123456789'
Chars ==
    << "A", "B", "C", "D", "E", "F", "G", "H", "I", "J", "K", "L", "M",
       "N", "O", "P", "Q", "R", "S", "T", "U", "V", "W", "X", "Y", "Z",
       "0", "1", "2", "3", "4", "5", "6", "7", "8", "9" >>

\* chars.charAt(index): the empty string when index is past the end
charAt(str, index) == IF index < Len(str) THEN << str[index + 1] >> ELSE <<>>

\* an index rounded to the nearest integer
RandomIndexRounded(k, length) == (2 * k * length + RANDOM_DENOM) \div (2 * RANDOM_DENOM)

\* Math.floor(Math.random() * chars.length)
RandomIndex(k, length) == (k * length) \div RANDOM_DENOM

\* generateLicenseKey(): draws are the 20 numbers Math.random() returns
generateLicenseKey(draws) ==
    LET RECURSIVE segment(_, _)
        segment(i, j) ==
            IF j >= 5 THEN <<>>
            ELSE charAt(Chars, RandomIndex(draws[5 * i + j + 1], Len(Chars))) \o segment(i, j + 1)
        RECURSIVE joined(_)
        joined(i) == IF i >= 4 THEN <<>> ELSE << "-" >> \o segment(i, 0) \o joined(i + 1)
    IN  KEY_PREFIX \o joined(0)

(***************************************************************************)
(* License storage and validation (lib/license.ts).                        *)
(***************************************************************************)
DAY_MS == 86400000
DEMO_MAX_DEVICES == 3

ERR_FORMAT == "Invalid license key format"
ERR_NO_LICENSE == "No license found. Please activate your license."
ERR_EXPIRED == "License has expired"
ERR_DEVICE_LIMIT == "License is already active on maxDevices devices. Please deactivate a device first."

DEMO_FEATURES == << "offline_access", "all_chapters", "progress_tracking", "export_data" >>

\* a store whose tag is the hash of the license without its device list
storeLicenseTagWithoutDevices(ls, license, rnd) ==
    LET encrypted == encryptData(ls, license, rnd)
    IN  setItem(setItem(encrypted.ls, LICENSE_KEY, encrypted.ret), HASH_KEY,
                hashData([license EXCEPT !.currentDevices = <<>>]))

\* storeLicense(license)
storeLicense(ls, license, rnd) ==
    LET encrypted == encryptData(ls, license, rnd)
    IN  setItem(setItem(encrypted.ls, LICENSE_KEY, encrypted.ret), HASH_KEY, hashData(license))

\* revokeLicense()
revokeLicense(ls) ==
    removeItem(removeItem(removeItem(ls, LICENSE_KEY), HASH_KEY), ACTIVATION_KEY)

\* a load that treats a half-present license as tampered and revokes it
getStoredLicenseRevokingPartial(ls, rnd) ==
    LET encrypted == getItem(ls, LICENSE_KEY)
        storedHash == getItem(ls, HASH_KEY)
        decrypted == decryptData(ls, encrypted[1], rnd)
    IN  IF encrypted = None \/ storedHash = None THEN [ret |-> None, ls |-> revokeLicense(ls)]
        ELSE IF ~decrypted.ok THEN [ret |-> None, ls |-> decrypted.ls]
        ELSE IF hashData(decrypted.ret[1]) # storedHash[1]
             THEN [ret |-> None, ls |-> revokeLicense(decrypted.ls)]
        ELSE [ret |-> decrypted.ret, ls |-> decrypted.ls]

\* getStoredLicense(): ret is the license or None (null)
getStoredLicense(ls, rnd) ==
    LET encrypted == getItem(ls, LICENSE_KEY)
        storedHash == getItem(ls, HASH_KEY)
        decrypted == decryptData(ls, encrypted[1], rnd)
    IN  IF encrypted = None \/ storedHash = None THEN [ret |-> None, ls |-> ls]
        ELSE IF ~decrypted.ok THEN [ret |-> None, ls |-> decrypted.ls]
        ELSE IF hashData(decrypted.ret[1]) # storedHash[1]
             THEN [ret |-> None, ls |-> revokeLicense(decrypted.ls)]
        ELSE [ret |-> decrypted.ret, ls |-> decrypted.ls]

\* a JavaScript value used as a condition: null, 0 and '' are falsy
Truthy(opt, zero) == opt # None /\ opt[1] # zero

\* a membership test that looks at the first element only
IncludesFirst(seq, x) == seq # <<>> /\ seq[1] = x

\* Array.prototype.includes
Includes(seq, x) == \E i \in 1..Len(seq) : seq[i] = x

\* Math.ceil(a / b) for b > 0
CeilDiv(a, b) == -((-a) \div b)

\* the device check with > for >=
DeviceLimitExceeded(lic) == Len(lic.currentDevices) > lic.maxDevices

\* license.currentDevices.length >= license.maxDevices
DeviceLimitReached(lic) == Len(lic.currentDevices) >= lic.maxDevices

\* license.expiresAt && Date.now() > license.expiresAt
Expired(lic, t) == Truthy(lic.expiresAt, 0) /\ t > lic.expiresAt[1]

\* the demo license validateLicense creates for a well-formed key
DemoLicense(licenseKey, deviceId, t) ==
    [ key |-> licenseKey,
      email |-> "user@example.com",
      deviceId |-> deviceId,
      activatedAt |-> t,
      expiresAt |-> None,
      maxDevices |-> DEMO_MAX_DEVICES,
      currentDevices |-> <<deviceId>>,
      tier |-> "student",
      features |-> DEMO_FEATURES ]

Invalid(error, days) ==
    [valid |-> FALSE, error |-> Some(error), license |-> None, daysRemaining |-> days]

\* the device is let in without being added to the list
KeepDevices(lic, deviceId) == lic

\* the device list overwritten with the new device
ReplaceDevices(lic, deviceId) == [lic EXCEPT !.currentDevices = <<deviceId>>]

\* license.currentDevices.push(currentDeviceId)
AddDevice(lic, deviceId) == [lic EXCEPT !.currentDevices = Append(@, deviceId)]

\* a validation that revokes a license it finds expired and counts the
\* caller in before it refuses for the device limit
validateLoadedPenalising(ls, license, e, t, rnd) ==
    LET lic == license[1]
        device == getDeviceId(ls, e, t)
        currentDeviceId == device.ret
        added == AddDevice(lic, currentDeviceId)
        known == Includes(lic.currentDevices, currentDeviceId)
        final == IF known THEN lic ELSE added
        daysRemaining ==
            IF Truthy(final.expiresAt, 0)
            THEN Some(CeilDiv(final.expiresAt[1] - t, DAY_MS))
            ELSE None
    IN  IF license = None THEN [ret |-> Invalid(ERR_NO_LICENSE, None), ls |-> ls]
        ELSE IF Expired(lic, t)
             THEN [ret |-> Invalid(ERR_EXPIRED, Some(0)), ls |-> revokeLicense(ls)]
        ELSE IF ~known /\ DeviceLimitReached(lic)
             THEN [ret |-> Invalid(ERR_DEVICE_LIMIT, None),
                   ls |-> storeLicense(device.ls, final, rnd)]
        ELSE [ret |-> [valid |-> TRUE, error |-> None, license |-> Some(final),
                       daysRemaining |-> daysRemaining],
              ls |-> IF known THEN device.ls ELSE storeLicense(device.ls, final, rnd)]

\* validateLicense(licenseKey?), from its second statement on: license is what
\* getStoredLicense or the activation produced
validateLoaded(ls, license, e, t, rnd) ==
    LET lic == license[1]
        device == getDeviceId(ls, e, t)
        currentDeviceId == device.ret
        added == AddDevice(lic, currentDeviceId)
        known == Includes(lic.currentDevices, currentDeviceId)
        final == IF known THEN lic ELSE added
        daysRemaining ==
            IF Truthy(final.expiresAt, 0)
            THEN Some(CeilDiv(final.expiresAt[1] - t, DAY_MS))
            ELSE None
    IN  IF license = None THEN [ret |-> Invalid(ERR_NO_LICENSE, None), ls |-> ls]
        ELSE IF Expired(lic, t)
             THEN [ret |-> Invalid(ERR_EXPIRED, Some(0)), ls |-> ls]
        ELSE IF ~known /\ DeviceLimitReached(lic)
             THEN [ret |-> Invalid(ERR_DEVICE_LIMIT, None), ls |-> device.ls]
        ELSE [ret |-> [valid |-> TRUE, error |-> None, license |-> Some(final),
                       daysRemaining |-> daysRemaining],
              ls |-> IF known THEN device.ls ELSE storeLicense(device.ls, final, rnd)]

\* validateLicense(licenseKey?): <<the result, localStorage afterwards>>
validateLicense(ls, licenseKey, e, t, rnd) ==
    LET loaded == getStoredLicense(ls, rnd)
        device == getDeviceId(loaded.ls, e, t)
        fresh == DemoLicense(licenseKey[1], device.ret, t)
    IN  IF loaded.ret = None /\ Truthy(licenseKey, <<>>)
        THEN IF ~isValidLicenseFormat(licenseKey[1])
             THEN [ret |-> Invalid(ERR_FORMAT, None), ls |-> loaded.ls]
             ELSE validateLoaded(storeLicense(device.ls, fresh, rnd), Some(fresh), e, t, rnd)
        ELSE validateLoaded(loaded.ls, loaded.ret, e, t, rnd)

\* a feature check that also refuses a license past its expiry
hasFeatureUnlessExpired(ls, feature, t, rnd) ==
    LET loaded == getStoredLicense(ls, rnd)
    IN  IF loaded.ret = None THEN [ret |-> FALSE, ls |-> loaded.ls]
        ELSE [ret |-> ~Expired(loaded.ret[1], t) /\ Includes(loaded.ret[1].features, feature),
              ls |-> loaded.ls]

\* hasFeature(feature): <<returned value, localStorage afterwards>>; t is the
\* time of the call, which the function does not read
hasFeature(ls, feature, t, rnd) ==
    LET loaded == getStoredLicense(ls, rnd)
    IN  IF loaded.ret = None THEN [ret |-> FALSE, ls |-> loaded.ls]
        ELSE [ret |-> Includes(loaded.ret[1].features, feature), ls |-> loaded.ls]

\* deactivateDevice(): <<returned value, localStorage afterwards>>
deactivateDevice(ls, e, t, rnd) ==
    LET loaded == getStoredLicense(ls, rnd)
        device == getDeviceId(loaded.ls, e, t)
        license == [loaded.ret[1] EXCEPT
                       !.currentDevices = SelectSeq(@, LAMBDA id : id # device.ret)]
    IN  IF loaded.ret = None THEN [ret |-> FALSE, ls |-> loaded.ls]
        ELSE [ret |-> TRUE, ls |-> storeLicense(device.ls, license, rnd)]

(***************************************************************************)
(* Rate limiter (lib/license.ts, class RateLimiter).  The limiter's fields *)
(* are the record rl = [requests, blocked, blockUntil].                    *)
(***************************************************************************)
FLASHCARD_LIMIT == 50
API_LIMIT == 100
WINDOW_MS == 60000
BLOCK_DURATION == 300000
BURST_WINDOW_MS == 5000
BURST_COUNT == 20
MIN_INTERVALS == 10
VARIANCE_THRESHOLD == 100
LOG_CAP == 50

RECURSIVE SumSeq(_)
SumSeq(seq) == IF seq = <<>> THEN 0 ELSE Head(seq) + SumSeq(Tail(seq))

MapSeq(seq, Op(_)) == [i \in 1..Len(seq) |-> Op(seq[i])]

\* getActionLimit(action)
getActionLimit(action) ==
    CASE action = "flashcard_view" -> FLASHCARD_LIMIT
      [] action = "api_call" -> API_LIMIT
      [] action = "export_data" -> 5
      [] action = "chapter_access" -> 20
      [] OTHER -> 100

\* JSON.parse(localStorage.getItem('chapterflash_security_logs') || '[]')
getSecurityLogs(ls) == IF getItem(ls, LOGS_KEY) = None THEN <<>> ELSE getItem(ls, LOGS_KEY)[1]

\* logSuspiciousActivity(action, count): localStorage afterwards
logSuspiciousActivity(ls, action, count, e, t) ==
    LET log == [timestamp |-> t, action |-> action, requestCount |-> count,
                userAgent |-> e["userAgent"]]
        pushed == Append(getSecurityLogs(ls), log)
        kept == IF Len(pushed) > LOG_CAP THEN Tail(pushed) ELSE pushed
    IN  setItem(ls, LOGS_KEY, kept)

\* limit || this.getActionLimit(action)
EffectiveLimit(action, limit) ==
    IF Truthy(limit, 0) THEN limit[1] ELSE getActionLimit(action)

\* the block check with the comparison turned round
StillBlockedAfterEnd(rl, t) == rl.blocked /\ t > rl.blockUntil

\* the end of the block with > for >=
BlockOverStrictly(rl, t) == rl.blocked /\ t > rl.blockUntil

\* the limit check with > for >=
LimitExceeded(totalCount, maxRequests) == totalCount > maxRequests

\* this.blocked && now < this.blockUntil
StillBlocked(rl, t) == rl.blocked /\ t < rl.blockUntil

\* this.blocked && now >= this.blockUntil
BlockOver(rl, t) == rl.blocked /\ t >= rl.blockUntil

\* totalCount >= maxRequests
LimitReached(totalCount, maxRequests) == totalCount >= maxRequests

\* an eviction that keeps only half a window
InHalfWindow(req, t) == t - req.timestamp < WINDOW_MS \div 2

\* now - req.timestamp < this.WINDOW_MS
InWindow(req, t) == t - req.timestamp < WINDOW_MS

\* a refusal during a block that restarts the block and logs it again
refuseWhileBlockedAndLog(rl, ls, action, e, t) ==
    [ret |-> FALSE, rl |-> [rl EXCEPT !.blockUntil = t + BLOCK_DURATION],
     ls |-> logSuspiciousActivity(ls, action, 0, e, t)]

\* canProceed while blocked: console.warn and return false
refuseWhileBlocked(rl, ls, action, e, t) == [ret |-> FALSE, rl |-> rl, ls |-> ls]

\* canProceed(action, limit?): <<returned value, the limiter, localStorage>>
canProceed(rl, ls, action, limit, e, t) ==
    LET unblocked ==
            IF BlockOver(rl, t)
            THEN [rl EXCEPT !.blocked = FALSE, !.requests = <<>>]
            ELSE rl
        cleaned == SelectSeq(unblocked.requests, LAMBDA req : InWindow(req, t))
        maxRequests == EffectiveLimit(action, limit)
        actionRequests == SelectSeq(cleaned, LAMBDA req : req.action = action)
        totalCount == SumSeq(MapSeq(actionRequests, LAMBDA req : req.count))
    IN  IF StillBlocked(rl, t)
        THEN refuseWhileBlocked(rl, ls, action, e, t)
        ELSE IF LimitReached(totalCount, maxRequests)
        THEN [ret |-> FALSE,
              rl |-> [requests |-> cleaned, blocked |-> TRUE,
                      blockUntil |-> t + BLOCK_DURATION],
              ls |-> logSuspiciousActivity(ls, action, totalCount, e, t)]
        ELSE [ret |-> TRUE,
              rl |-> [unblocked EXCEPT
                         !.requests = Append(cleaned, [timestamp |-> t, action |-> action,
                                                       count |-> 1])],
              ls |-> ls]

\* the gaps between consecutive requests; .filter(Boolean) drops the gaps of 0
Intervals(reqs) ==
    SelectSeq([i \in 1..(Len(reqs) - 1) |-> reqs[i + 1].timestamp - reqs[i].timestamp],
              LAMBDA gap : gap # 0)

\* variance < 100, where variance = sum((x - avg)^2) / n and avg = sum(x) / n:
\* multiplied through by n^2, n * sum(x^2) - sum(x)^2 < 100 * n^2
LowVariance(intervals) ==
    LET n == Len(intervals)
        sum == SumSeq(intervals)
        squares == SumSeq(MapSeq(intervals, LAMBDA x : x * x))
    IN  n * squares - sum * sum < VARIANCE_THRESHOLD * n * n

\* the burst check with >= for >
BurstReachedAtCount(n) == n >= BURST_COUNT

\* recentRequests.length > 20
BurstReached(n) == n > BURST_COUNT

\* detectBotBehavior()
detectBotBehavior(rl, t) ==
    LET recentRequests == SelectSeq(rl.requests, LAMBDA req : t - req.timestamp < BURST_WINDOW_MS)
        intervals == Intervals(rl.requests)
    IN  IF BurstReached(Len(recentRequests)) THEN TRUE
        ELSE IF Len(intervals) > MIN_INTERVALS THEN LowVariance(intervals)
        ELSE FALSE

\* getStatus()
getStatus(rl, t) ==
    LET recentRequests == SelectSeq(rl.requests, LAMBDA req : t - req.timestamp < WINDOW_MS)
        first == IF recentRequests = <<>> THEN t ELSE recentRequests[1].timestamp
    IN  [blocked |-> rl.blocked, blockUntil |-> rl.blockUntil,
         requestCount |-> Len(recentRequests), maxRequests |-> API_LIMIT,
         windowMs |-> WINDOW_MS, timeUntilReset |-> WINDOW_MS - (t - first)]

\* reset()
reset(rl) == [requests |-> <<>>, blocked |-> FALSE, blockUntil |-> 0]

RATE_LIMIT_ERROR == "Rate limit exceeded. Please try again later."
AUTOMATION_ERROR == "Automated access detected. Please use the app normally."

\* a gate that leaves out the bot check
GateOutcomeLimitOnly(allowed, automated) ==
    IF ~allowed THEN RATE_LIMIT_ERROR ELSE "invoked"

\* what the function returned by withRateLimit(fn, action) does with the two
\* checks' answers: throw one of the two errors, or call fn
GateOutcome(allowed, automated) ==
    IF ~allowed THEN RATE_LIMIT_ERROR
    ELSE IF automated THEN AUTOMATION_ERROR
    ELSE "invoked"

\* a gate that asks the bot check first and the limiter only when it passes
withRateLimitBotCheckFirst(rl, ls, action, e, t) ==
    LET automated == detectBotBehavior(rl, t)
        check == IF automated THEN [ret |-> TRUE, rl |-> rl, ls |-> ls]
                 ELSE canProceed(rl, ls, action, None, e, t)
    IN  [outcome |-> GateOutcome(check.ret \/ automated, automated), check |-> check]

\* withRateLimit(fn, action)(...args): the outcome, the limiter, localStorage
withRateLimit(rl, ls, action, e, t) ==
    LET check == canProceed(rl, ls, action, None, e, t)
        automated == IF check.ret THEN detectBotBehavior(check.rl, t) ELSE FALSE
    IN  [outcome |-> GateOutcome(check.ret, automated), check |-> check]

(***************************************************************************)
(* Content protection hook (hooks/useContentProtection.ts): the violation  *)
(* log.                                                                    *)
(***************************************************************************)
VIOLATION_CAP == 100

\* useState<string>(''): the hook's deviceId before getDeviceId() has resolved;
\* device ids are digests, numbers from 0 up
EMPTY_DEVICE_ID == 0 - 1

\* getViolations()
getViolations(ls) ==
    IF getItem(ls, VIOLATIONS_KEY) = None THEN <<>> ELSE getItem(ls, VIOLATIONS_KEY)[1]

\* a log that drops the newest record when it is full
logViolationDroppingNewest(ls, type, deviceId, e, t) ==
    LET violation == [type |-> type, timestamp |-> t, userAgent |-> e["userAgent"],
                      deviceId |-> deviceId]
        pushed == Append(getViolations(ls), violation)
        kept == IF Len(pushed) > VIOLATION_CAP THEN SubSeq(pushed, 1, VIOLATION_CAP) ELSE pushed
    IN  setItem(ls, VIOLATIONS_KEY, kept)

\* logViolation(type): localStorage afterwards; deviceId is the hook's state
logViolation(ls, type, deviceId, e, t) ==
    LET violation == [type |-> type, timestamp |-> t, userAgent |-> e["userAgent"],
                      deviceId |-> deviceId]
        pushed == Append(getViolations(ls), violation)
        kept == IF Len(pushed) > VIOLATION_CAP THEN Tail(pushed) ELSE pushed
    IN  setItem(ls, VIOLATIONS_KEY, kept)

(***************************************************************************)
(* The state after construction: nothing persisted, a fresh limiter.       *)
(***************************************************************************)
NoCall == [op |-> "none"]

\* no validateLicense or deactivateDevice call is suspended at an await
NoInflight == [start |-> EmptyStorage, procs |-> <<>>]

\* useContentProtection is not mounted: its state is the initial state and no
\* interval is set
Unmounted ==
    [mounted |-> FALSE, detectDevTools |-> FALSE, devToolsOpen |-> FALSE,
     deviceId |-> EMPTY_DEVICE_ID, docked |-> FALSE, deps |-> None, intervals |-> <<>>]

limiter == [requests |-> requests, blocked |-> blocked, blockUntil |-> blockUntil]

Init ==
    /\ localStorage = EmptyStorage
    /\ env = EnvOf(0, "undefined")
    /\ now = 0
    /\ requests = <<>>
    /\ blocked = FALSE
    /\ blockUntil = 0
    /\ calls = <<>>
    /\ fnCalls = 0
    /\ inflight = NoInflight
    /\ hook = Unmounted
    /\ last = NoCall

limiterVars == <<requests, blocked, blockUntil, calls, fnCalls>>

(***************************************************************************)
(* License manager: the exported operations, and what the world around     *)
(* them does (time passes, the storage is opened on another device, the    *)
(* stored payload is edited).                                              *)
(***************************************************************************)
\* the instants the license manager is observed at
LicenseTimes == {0, 2}

\* the expiresAt values of issued licenses: null, the epoch, later instants,
\* an instant more than a day ahead
IssuedExpiry == {None, Some(0), Some(1), Some(2), Some(DAY_MS + 2)}

\* the features of issued licenses: a license with an expiry is a trial
\* without the export feature
TRIAL_FEATURES == << "offline_access", "all_chapters" >>
IssuedFeatures(expiresAt) == IF expiresAt = None THEN DEMO_FEATURES ELSE TRIAL_FEATURES

\* the feature tags the application asks about
FeatureTags == {"all_chapters", "export_data"}

IssuedKey == JoinKey(KEY_PREFIX, <<SegLetters, SegDigits, SegLetters, SegDigits>>, Dash)

\* validateLicense(licenseKey)
ValidateLicense(licenseKey) ==
    LET rnd == RandomKey(localStorage)
        r == validateLicense(localStorage, licenseKey, env, now, rnd)
    IN  /\ localStorage' = r.ls
        /\ UNCHANGED <<inflight, hook>>
        /\ last' = [op |-> "validateLicense", licenseKey |-> licenseKey, result |-> r.ret]
        /\ UNCHANGED <<env, now, limiterVars>>

\* deactivateDevice()
DeactivateDevice ==
    LET rnd == RandomKey(localStorage)
        r == deactivateDevice(localStorage, env, now, rnd)
    IN  /\ localStorage' = r.ls
        /\ UNCHANGED <<inflight, hook>>
        /\ last' = [op |-> "deactivateDevice", result |-> r.ret]
        /\ UNCHANGED <<env, now, limiterVars>>

\* hasFeature(feature)
HasFeature(feature) ==
    LET rnd == RandomKey(localStorage)
        r == hasFeature(localStorage, feature, now, rnd)
    IN  /\ localStorage' = r.ls
        /\ UNCHANGED <<inflight, hook>>
        /\ last' = [op |-> "hasFeature", feature |-> feature, result |-> r.ret]
        /\ UNCHANGED <<env, now, limiterVars>>

\* revokeLicense()
RevokeLicense ==
    /\ localStorage' = revokeLicense(localStorage)
    /\ UNCHANGED <<inflight, hook>>
    /\ last' = [op |-> "revokeLicense"]
    /\ UNCHANGED <<env, now, limiterVars>>

\* storeLicense(license) with a license issued to this device by the license
\* authority: any expiry, any device allowance
StoreIssuedLicense(expiresAt, maxDevices) ==
    LET rnd == RandomKey(localStorage)
        device == getDeviceId(localStorage, env, now)
        license == [DemoLicense(IssuedKey, device.ret, now) EXCEPT
                           !.expiresAt = expiresAt, !.maxDevices = maxDevices,
                           !.features = IssuedFeatures(expiresAt)]
    IN  /\ localStorage' = storeLicense(device.ls, license, rnd)
        /\ UNCHANGED <<inflight, hook>>
        /\ last' = [op |-> "storeLicense"]
        /\ UNCHANGED <<env, now, limiterVars>>

\* storeLicense(license) with the stored license and a raised device allowance
StoreUpgradedLicense(maxDevices) ==
    LET rnd == RandomKey(localStorage)
        loaded == getStoredLicense(localStorage, rnd)
    IN  /\ loaded.ret # None
        /\ maxDevices > loaded.ret[1].maxDevices
        /\ localStorage' =
               storeLicense(loaded.ls, [loaded.ret[1] EXCEPT !.maxDevices = maxDevices], rnd)
        /\ UNCHANGED <<inflight, hook>>
        /\ last' = [op |-> "storeLicense"]
        /\ UNCHANGED <<env, now, limiterVars>>

\* the persisted state is opened on another device: that device has its own
\* environment and no identity record yet
SwitchDevice(e) ==
    /\ e # env
    /\ env' = e
    /\ localStorage' = removeItem(localStorage, DEVICE_KEY)
    /\ UNCHANGED <<inflight, hook>>
    /\ last' = NoCall
    /\ UNCHANGED <<now, limiterVars>>

\* one field of a license payload, changed
TamperEdits == {"maxDevices", "expiresAt", "currentDevices", "tier"}

EditLicense(license, edit) ==
    CASE edit = "maxDevices" -> [license EXCEPT !.maxDevices = @ + 1]
      [] edit = "expiresAt" ->
             [license EXCEPT !.expiresAt = IF @ = None THEN Some(DAY_MS) ELSE None]
      [] edit = "currentDevices" ->
             [license EXCEPT !.currentDevices = IF @ = <<>> THEN <<license.deviceId>> ELSE Tail(@)]
      [] edit = "tier" -> [license EXCEPT !.tier = IF @ = "lifetime" THEN "free" ELSE "lifetime"]

\* the stored payload is decrypted, edited and encrypted again with the
\* installation's key; the stored integrity tag is left as it was
TamperLicense(edit) ==
    LET encrypted == getItem(localStorage, LICENSE_KEY)
        edited == EditLicense(JsonParse(encrypted[1].plaintext), edit)
    IN  /\ encrypted # None
        /\ getItem(localStorage, HASH_KEY) # None
        /\ getItem(localStorage, HASH_KEY)[1] = hashData(JsonParse(encrypted[1].plaintext))
        /\ localStorage' =
               setItem(localStorage, LICENSE_KEY,
                       AesEncrypt(JsonStringify(edited), encrypted[1].ek))
        /\ UNCHANGED <<inflight, hook>>
        /\ last' = NoCall
        /\ UNCHANGED <<env, now, limiterVars>>

\* the installation's encryption key is lost (site data partly cleared), which
\* leaves the stored payload a ciphertext under a key that is no longer there
LoseEncryptionKey ==
    /\ getItem(localStorage, EK_KEY) # None
    /\ getItem(localStorage, LICENSE_KEY) # None
    /\ localStorage' = removeItem(localStorage, EK_KEY)
    /\ UNCHANGED <<inflight, hook>>
    /\ last' = NoCall
    /\ UNCHANGED <<env, now, limiterVars>>

\* one of the two persisted license entries is lost (site data partly
\* cleared): the payload or the tag
LoseLicenseEntry(k) ==
    /\ getItem(localStorage, LICENSE_KEY) # None
    /\ getItem(localStorage, HASH_KEY) # None
    /\ localStorage' = removeItem(localStorage, k)
    /\ UNCHANGED <<inflight, hook>>
    /\ last' = NoCall
    /\ UNCHANGED <<env, now, limiterVars>>

\* time passes
AdvanceLicenseClock(t) ==
    /\ t > now
    /\ now' = t
    /\ UNCHANGED <<inflight, hook>>
    /\ last' = NoCall
    /\ UNCHANGED <<localStorage, env, limiterVars>>

Next ==
    \/ \E licenseKey \in KeyArgs : ValidateLicense(licenseKey)
    \/ DeactivateDevice
    \/ \E feature \in FeatureTags : HasFeature(feature)
    \/ RevokeLicense
    \/ \E expiresAt \in IssuedExpiry, maxDevices \in 1..DEMO_MAX_DEVICES :
           StoreIssuedLicense(expiresAt, maxDevices)
    \/ \E maxDevices \in 1..DEMO_MAX_DEVICES : StoreUpgradedLicense(maxDevices)
    \/ \E e \in LicenseEnvs : SwitchDevice(e)
    \/ \E edit \in TamperEdits : TamperLicense(edit)
    \/ \E t \in LicenseTimes : AdvanceLicenseClock(t)

Spec == Init /\ [][Next]_vars

\* the license manager on a store whose payload and key can be damaged at
\* rest: activated demo licenses only, no issued licenses and no expiry
NextAtRest ==
    \/ \E licenseKey \in KeyArgs : ValidateLicense(licenseKey)
    \/ DeactivateDevice
    \/ RevokeLicense
    \/ \E e \in LicenseEnvs : SwitchDevice(e)
    \/ \E edit \in TamperEdits : TamperLicense(edit)
    \/ LoseEncryptionKey
    \/ \E k \in {LICENSE_KEY, HASH_KEY} : LoseLicenseEntry(k)
    \/ \E feature \in FeatureTags : HasFeature(feature)

SpecAtRest == Init /\ [][NextAtRest]_vars

(***************************************************************************)
(* Rate limiter: the operations on the singleton rateLimiter, and time.    *)
(***************************************************************************)
\* the instants the limiter is observed at: around the window's and the
\* block's ends
RateTimes ==
    { 0, WINDOW_MS \div 2, WINDOW_MS, BLOCK_DURATION - (WINDOW_MS \div 2), BLOCK_DURATION,
      BLOCK_DURATION + (WINDOW_MS \div 2), BLOCK_DURATION + WINDOW_MS }

\* the action names and explicit limits canProceed is called with
RateActions == {"export_data", "general"}
RateLimits == {None, Some(-1), Some(1), Some(2)}

SetLimiter(rl) ==
    /\ requests' = rl.requests
    /\ blocked' = rl.blocked
    /\ blockUntil' = rl.blockUntil

CallRecord(action, limit, ret) ==
    [op |-> "canProceed", time |-> now, action |-> action, limit |-> limit, ret |-> ret]

\* rateLimiter.canProceed(action, limit)
CanProceed(action, limit) ==
    LET r == canProceed(limiter, localStorage, action, limit, env, now)
    IN  /\ Len(calls) < MaxCalls
        /\ SetLimiter(r.rl)
        /\ localStorage' = r.ls
        /\ calls' = Append(calls, CallRecord(action, limit, r.ret))
        /\ UNCHANGED <<inflight, hook>>
        /\ last' = [op |-> "canProceed", action |-> action, limit |-> limit, result |-> r.ret]
        /\ UNCHANGED <<env, now, fnCalls>>

\* rateLimiter.reset()
Reset ==
    /\ Len(calls) < MaxCalls
    /\ SetLimiter(reset(limiter))
    /\ calls' = Append(calls, [op |-> "reset"])
    /\ UNCHANGED <<inflight, hook>>
    /\ last' = [op |-> "reset"]
    /\ UNCHANGED <<localStorage, env, now, fnCalls>>

\* rateLimiter.detectBotBehavior()
DetectBotBehavior ==
    /\ UNCHANGED <<inflight, hook>>
    /\ last' = [op |-> "detectBotBehavior", result |-> detectBotBehavior(limiter, now)]
    /\ UNCHANGED <<localStorage, env, now, requests, blocked, blockUntil, calls, fnCalls>>

\* a status query that evicts what it does not count and ends a block that
\* is over
GetStatusCleaning ==
    /\ requests' = SelectSeq(requests, LAMBDA req : InWindow(req, now))
    /\ blocked' = (blocked /\ now < blockUntil)
    /\ UNCHANGED <<inflight, hook>>
    /\ last' = [op |-> "getStatus", result |-> getStatus(limiter, now)]
    /\ UNCHANGED <<localStorage, env, now, blockUntil, calls, fnCalls>>

\* rateLimiter.getStatus()
GetStatus ==
    /\ UNCHANGED <<inflight, hook>>
    /\ last' = [op |-> "getStatus", result |-> getStatus(limiter, now)]
    /\ UNCHANGED <<localStorage, env, now, requests, blocked, blockUntil, calls, fnCalls>>

\* time passes
AdvanceRateClock(t) ==
    /\ t > now
    /\ now' = t
    /\ UNCHANGED <<inflight, hook>>
    /\ last' = NoCall
    /\ UNCHANGED <<localStorage, env, requests, blocked, blockUntil, calls, fnCalls>>

NextRate ==
    \/ \E action \in RateActions, limit \in RateLimits : CanProceed(action, limit)
    \/ Reset
    \/ DetectBotBehavior
    \/ GetStatus
    \/ \E t \in RateTimes : AdvanceRateClock(t)

SpecRate == Init /\ [][NextRate]_vars

(***************************************************************************)
(* The gate withRateLimit(fn, action), on a limiter that already holds the *)
(* events of earlier allowed calls.                                        *)
(***************************************************************************)
GATE_STEP_MS == 100

\* n events of one action, the first at 0, the gaps alternating gapA, gapB
Spaced(action, n, gapA, gapB) ==
    [i \in 1..n |->
        [timestamp |-> ((i - 1) \div 2) * (gapA + gapB) + ((i - 1) % 2) * gapA,
         action |-> action, count |-> 1]]

\* evenly spaced events, the last `exports` of them exports and the others
\* api calls
SpacedWithExports(n, exports) ==
    [i \in 1..n |->
        [Spaced("api_call", n, GATE_STEP_MS, GATE_STEP_MS)[i] EXCEPT
            !.action = IF i > n - exports THEN "export_data" ELSE "api_call"]]

\* what the limiter holds after allowed calls made at these instants: evenly
\* spaced calls, calls with jitter, a burst within one millisecond, exports
\* just below the export limit, and evenly spaced calls that end with
\* exports just below the export limit
GateHistories ==
    { <<>>,
      Spaced("api_call", MIN_INTERVALS + 1, GATE_STEP_MS, GATE_STEP_MS),
      Spaced("api_call", MIN_INTERVALS + 2, GATE_STEP_MS, GATE_STEP_MS),
      Spaced("api_call", MIN_INTERVALS + 2, GATE_STEP_MS \div 2, 3 * (GATE_STEP_MS \div 2)),
      Spaced("api_call", BURST_COUNT, 0, 0),
      Spaced("export_data", getActionLimit("export_data") - 1, GATE_STEP_MS, GATE_STEP_MS),
      SpacedWithExports(MIN_INTERVALS + 2, getActionLimit("export_data") - 1) }

GateActions == {"api_call", "export_data"}

GateHorizon == MaxGateTicks * GATE_STEP_MS + BURST_WINDOW_MS

InitGate ==
    /\ localStorage = EmptyStorage
    /\ env = EnvOf(0, "undefined")
    /\ requests \in GateHistories
    /\ now = IF requests = <<>> THEN 0 ELSE requests[Len(requests)].timestamp
    /\ blocked = FALSE
    /\ blockUntil = 0
    /\ calls = <<>>
    /\ fnCalls = 0
    /\ inflight = NoInflight
    /\ hook = Unmounted
    /\ last = NoCall

\* withRateLimit(fn, action)(...args); fn counts its own invocations
WithRateLimit(action) ==
    LET g == withRateLimit(limiter, localStorage, action, env, now)
    IN  /\ Len(calls) < MaxCalls
        /\ SetLimiter(g.check.rl)
        /\ localStorage' = g.check.ls
        /\ calls' = Append(calls, CallRecord(action, None, g.check.ret))
        /\ fnCalls' = IF g.outcome = "invoked" THEN fnCalls + 1 ELSE fnCalls
        /\ UNCHANGED <<inflight, hook>>
        /\ last' = [op |-> "withRateLimit", action |-> action, outcome |-> g.outcome]
        /\ UNCHANGED <<env, now>>

\* time passes
AdvanceGateClock(d) ==
    /\ now + d <= (IF d = GATE_STEP_MS THEN MaxGateTicks * GATE_STEP_MS ELSE GateHorizon)
    /\ now' = now + d
    /\ UNCHANGED <<inflight, hook>>
    /\ last' = NoCall
    /\ UNCHANGED <<localStorage, env, requests, blocked, blockUntil, calls, fnCalls>>

NextGate ==
    \/ \E action \in GateActions : WithRateLimit(action)
    \/ \E d \in {GATE_STEP_MS, BURST_WINDOW_MS} : AdvanceGateClock(d)

SpecGate == InitGate /\ [][NextGate]_vars

(***************************************************************************)
(* Identity store: the exported operations, environment drift, and time.   *)
(***************************************************************************)
\* registerDevice()
RegisterDevice ==
    LET r == registerDevice(localStorage, env, now)
    IN  /\ localStorage' = r.ls
        /\ UNCHANGED <<inflight, hook>>
        /\ last' = [op |-> "registerDevice", result |-> r.ret]
        /\ UNCHANGED <<env, now, limiterVars>>

\* getDeviceId()
GetDeviceId ==
    LET r == getDeviceId(localStorage, env, now)
    IN  /\ localStorage' = r.ls
        /\ UNCHANGED <<inflight, hook>>
        /\ last' = [op |-> "getDeviceId", result |-> r.ret]
        /\ UNCHANGED <<env, now, limiterVars>>

\* verifyDevice()
VerifyDevice ==
    LET r == verifyDevice(localStorage, env, now)
    IN  /\ localStorage' = r.ls
        /\ UNCHANGED <<inflight, hook>>
        /\ last' = [op |-> "verifyDevice", result |-> r.ret]
        /\ UNCHANGED <<env, now, limiterVars>>

\* the environment drifts: a browser or OS update, another display
Drift(e) ==
    /\ e # env
    /\ env' = e
    /\ UNCHANGED <<inflight, hook>>
    /\ last' = NoCall
    /\ UNCHANGED <<localStorage, now, limiterVars>>

\* time passes
AdvanceDeviceClock ==
    /\ now < MaxDeviceTime
    /\ now' = now + 1
    /\ UNCHANGED <<inflight, hook>>
    /\ last' = NoCall
    /\ UNCHANGED <<localStorage, env, limiterVars>>

NextDevice ==
    \/ RegisterDevice
    \/ GetDeviceId
    \/ VerifyDevice
    \/ \E e \in Envs : Drift(e)
    \/ AdvanceDeviceClock

SpecDevice == Init /\ [][NextDevice]_vars


(***************************************************************************)
(* Evidence logs: protection violations and rate-limit events, on logs     *)
(* that already hold the records of earlier use.                           *)
(***************************************************************************)
\* the instant the logs are taken up at: after the earlier records
LOG_START == (LOG_CAP + 1) * BLOCK_DURATION

ViolationTypes == {"right_click_attempt", "devtools_opened"}

\* n earlier violations, logged at the instants 1..n before the hook knew its
\* device id
PastViolations(n) ==
    [i \in 1..n |->
        [type |-> IF i % 2 = 1 THEN "right_click_attempt" ELSE "devtools_opened",
         timestamp |-> i, userAgent |-> "v0", deviceId |-> EMPTY_DEVICE_ID]]

\* n earlier blocks of exports, one block duration apart
PastSecurityLogs(n) ==
    [i \in 1..n |->
        [timestamp |-> i * BLOCK_DURATION, action |-> "export_data",
         requestCount |-> getActionLimit("export_data"), userAgent |-> "v0"]]

Stored(seq) == IF seq = <<>> THEN None ELSE Some(seq)

InitLog ==
    /\ \E n \in {0, VIOLATION_CAP - 1, VIOLATION_CAP}, m \in {0, LOG_CAP - 1, LOG_CAP} :
           localStorage = [EmptyStorage EXCEPT ![VIOLATIONS_KEY] = Stored(PastViolations(n)),
                                               ![LOGS_KEY] = Stored(PastSecurityLogs(m))]
    /\ env = EnvOf(0, "undefined")
    /\ now = LOG_START
    /\ requests = <<>>
    /\ blocked = FALSE
    /\ blockUntil = 0
    /\ calls = <<>>
    /\ fnCalls = 0
    /\ inflight = NoInflight
    /\ hook = Unmounted
    /\ last = NoCall

\* the violations logged since LOG_START
NewViolations == SelectSeq(getViolations(localStorage), LAMBDA v : v.timestamp >= LOG_START)

\* the hook's deviceId state: '' until getDeviceId() has resolved, then the
\* persisted id
HookDeviceIds ==
    {EMPTY_DEVICE_ID} \cup (IF getItem(localStorage, DEVICE_KEY) = None THEN {}
               ELSE {getItem(localStorage, DEVICE_KEY)[1].id})

\* logViolation(type)
LogViolation(type, deviceId) ==
    /\ Len(NewViolations) < MaxLogAppends
    /\ localStorage' = logViolation(localStorage, type, deviceId, env, now)
    /\ UNCHANGED <<inflight, hook>>
    /\ last' = [op |-> "logViolation", type |-> type]
    /\ UNCHANGED <<env, now, limiterVars>>

\* getDeviceId().then(setDeviceId)
InitHookDeviceId ==
    /\ getItem(localStorage, DEVICE_KEY) = None
    /\ localStorage' = getDeviceId(localStorage, env, now).ls
    /\ UNCHANGED <<inflight, hook>>
    /\ last' = [op |-> "getDeviceId"]
    /\ UNCHANGED <<env, now, limiterVars>>

\* getViolations()
GetViolations ==
    /\ UNCHANGED <<inflight, hook>>
    /\ last' = [op |-> "getViolations", result |-> getViolations(localStorage)]
    /\ UNCHANGED <<localStorage, env, now, limiterVars>>

\* rateLimiter.getSecurityLogs()
GetSecurityLogs ==
    /\ UNCHANGED <<inflight, hook>>
    /\ last' = [op |-> "getSecurityLogs", result |-> getSecurityLogs(localStorage)]
    /\ UNCHANGED <<localStorage, env, now, limiterVars>>

\* time passes: a millisecond (a few in a row), or a block duration
AdvanceLogClock(d) ==
    /\ now + d <= LOG_START + MaxLogTicks * BLOCK_DURATION
    /\ d = 1 => (now - LOG_START) % BLOCK_DURATION < MaxLogAppends
    /\ now' = now + d
    /\ UNCHANGED <<inflight, hook>>
    /\ last' = NoCall
    /\ UNCHANGED <<localStorage, env, requests, blocked, blockUntil, calls, fnCalls>>

NextLog ==
    \/ \E type \in ViolationTypes : \E deviceId \in HookDeviceIds : LogViolation(type, deviceId)
    \/ InitHookDeviceId
    \/ CanProceed("export_data", Some(1))
    \/ GetViolations
    \/ GetSecurityLogs
    \/ \E d \in {1, BLOCK_DURATION} : AdvanceLogClock(d)

SpecLog == InitLog /\ [][NextLog]_vars

(***************************************************************************)
(* The async license calls, step by step.  validateLicense and             *)
(* deactivateDevice run synchronously up to an `await getDeviceId()`, are   *)
(* suspended there with their local `license`, and resume later; other      *)
(* calls run in between.  The identity record is stored, so getDeviceId()   *)
(* reads the id when it is called.  There is no lock in lib/license.ts.     *)
(***************************************************************************)
\* the calls started and not yet all returned, at most
MaxConcurrent == 2

SecondKey == JoinKey(KEY_PREFIX, <<SegDigits, SegLetters, SegDigits, SegLetters>>, Dash)

\* the licenseKey arguments of the concurrent calls
ConcurrentKeys == {None, Some(IssuedKey), Some(SecondKey)}

\* a call suspended at an await, with its locals
Suspended(op, licenseKey, pc, license, deviceId) ==
    [op |-> op, licenseKey |-> licenseKey, pc |-> pc, license |-> license,
     deviceId |-> deviceId, result |-> None]

\* a call whose promise has resolved with result
Returned(op, licenseKey, result) ==
    [op |-> op, licenseKey |-> licenseKey, pc |-> "done", license |-> None,
     deviceId |-> EMPTY_DEVICE_ID, result |-> Some(result)]

\* validateLicense from `if (!license)` to the second `await getDeviceId()`
validateLicenseCheck(ls, licenseKey, license, e, t) ==
    LET device == getDeviceId(ls, e, t)
    IN  IF license = None
        THEN [proc |-> Returned("validateLicense", licenseKey, Invalid(ERR_NO_LICENSE, None)),
              ls |-> ls]
        ELSE IF Expired(license[1], t)
             THEN [proc |-> Returned("validateLicense", licenseKey, Invalid(ERR_EXPIRED, Some(0))),
                   ls |-> ls]
        ELSE [proc |-> Suspended("validateLicense", licenseKey, "devices", license, device.ret),
              ls |-> device.ls]

\* validateLicense from its first statement to its first await
validateLicenseEnter(ls, licenseKey, e, t, rnd) ==
    LET loaded == getStoredLicense(ls, rnd)
        device == getDeviceId(loaded.ls, e, t)
    IN  IF loaded.ret = None /\ Truthy(licenseKey, <<>>)
        THEN IF ~isValidLicenseFormat(licenseKey[1])
             THEN [proc |-> Returned("validateLicense", licenseKey, Invalid(ERR_FORMAT, None)),
                   ls |-> loaded.ls]
             ELSE [proc |-> Suspended("validateLicense", licenseKey, "activate", None, device.ret),
                   ls |-> device.ls]
        ELSE validateLicenseCheck(loaded.ls, licenseKey, loaded.ret, e, t)

\* validateLicense resumed in the activation: the demo license is built and
\* stored, and the call goes on to the second await
validateLicenseActivate(ls, p, e, t, rnd) ==
    LET fresh == DemoLicense(p.licenseKey[1], p.deviceId, t)
    IN  validateLicenseCheck(storeLicense(ls, fresh, rnd), p.licenseKey, Some(fresh), e, t)

\* validateLicense resumed at the device check, on its local license
validateLicenseDevices(ls, p, t, rnd) ==
    LET lic == p.license[1]
        known == Includes(lic.currentDevices, p.deviceId)
        final == IF known THEN lic ELSE AddDevice(lic, p.deviceId)
        daysRemaining ==
            IF Truthy(final.expiresAt, 0)
            THEN Some(CeilDiv(final.expiresAt[1] - t, DAY_MS))
            ELSE None
    IN  IF ~known /\ DeviceLimitReached(lic)
        THEN [proc |-> Returned("validateLicense", p.licenseKey, Invalid(ERR_DEVICE_LIMIT, None)),
              ls |-> ls]
        ELSE [proc |-> Returned("validateLicense", p.licenseKey,
                                [valid |-> TRUE, error |-> None, license |-> Some(final),
                                 daysRemaining |-> daysRemaining]),
              ls |-> IF known THEN ls ELSE storeLicense(ls, final, rnd)]

\* deactivateDevice from its first statement to its await
deactivateDeviceEnter(ls, e, t, rnd) ==
    LET loaded == getStoredLicense(ls, rnd)
        device == getDeviceId(loaded.ls, e, t)
    IN  IF loaded.ret = None
        THEN [proc |-> Returned("deactivateDevice", None, FALSE), ls |-> loaded.ls]
        ELSE [proc |-> Suspended("deactivateDevice", None, "filter", loaded.ret, device.ret),
              ls |-> device.ls]

\* deactivateDevice resumed: its local license is filtered and stored
deactivateDeviceFilter(ls, p, rnd) ==
    LET license == [p.license[1] EXCEPT
                       !.currentDevices = SelectSeq(@, LAMBDA id : id # p.deviceId)]
    IN  [proc |-> Returned("deactivateDevice", None, TRUE), ls |-> storeLicense(ls, license, rnd)]

\* the persisted states the calls start from: this device's identity record,
\* and no license, a license active on this device, a license active on
\* another device with room left, or one with no room left
ThisDevice == registerDevice(EmptyStorage, EnvOf(0, "undefined"), 0)
OtherDeviceId == getDeviceFingerprint(EnvOf(1, "undefined"), 0).id

ConcurrentStarts ==
    LET registered == ThisDevice.ls
        own == DemoLicense(IssuedKey, getDeviceId(registered, EnvOf(0, "undefined"), 0).ret, 0)
        Persisted(license) == storeLicense(registered, license, RandomKey(registered))
    IN  { registered,
          Persisted(own),
          Persisted([own EXCEPT !.currentDevices = <<OtherDeviceId>>]),
          Persisted([own EXCEPT !.currentDevices = <<OtherDeviceId>>, !.maxDevices = 1]) }

InitConcurrent ==
    /\ localStorage \in ConcurrentStarts
    /\ env = EnvOf(0, "undefined")
    /\ now = 0
    /\ requests = <<>>
    /\ blocked = FALSE
    /\ blockUntil = 0
    /\ calls = <<>>
    /\ fnCalls = 0
    /\ inflight = [start |-> localStorage, procs |-> <<>>]
    /\ hook = Unmounted
    /\ last = NoCall

\* a call is made: it runs to its first await, or returns without one
StartCall(op, licenseKey) ==
    LET rnd == RandomKey(localStorage)
        r == IF op = "validateLicense"
             THEN validateLicenseEnter(localStorage, licenseKey, env, now, rnd)
             ELSE deactivateDeviceEnter(localStorage, env, now, rnd)
    IN  /\ Len(inflight.procs) < MaxConcurrent
        /\ op = "deactivateDevice" => licenseKey = None
        /\ localStorage' = r.ls
        /\ inflight' = [inflight EXCEPT !.procs = Append(@, r.proc)]
        /\ last' = NoCall
        /\ UNCHANGED <<env, now, limiterVars, hook>>

\* the await of call i resolves and the call runs to its next await or to
\* its return
Resume(i) ==
    LET rnd == RandomKey(localStorage)
        p == inflight.procs[i]
        r == CASE p.pc = "activate" -> validateLicenseActivate(localStorage, p, env, now, rnd)
               [] p.pc = "devices" -> validateLicenseDevices(localStorage, p, now, rnd)
               [] p.pc = "filter" -> deactivateDeviceFilter(localStorage, p, rnd)
    IN  /\ p.pc # "done"
        /\ localStorage' = r.ls
        /\ inflight' = [inflight EXCEPT !.procs[i] = r.proc]
        /\ last' = NoCall
        /\ UNCHANGED <<env, now, limiterVars, hook>>

NextConcurrent ==
    \/ \E op \in {"validateLicense", "deactivateDevice"}, licenseKey \in ConcurrentKeys :
           StartCall(op, licenseKey)
    \/ \E i \in 1..Len(inflight.procs) : Resume(i)

SpecConcurrent == InitConcurrent /\ [][NextConcurrent]_vars

(***************************************************************************)
(* useContentProtection, the DevTools effect: React runs the effect after  *)
(* the commit of a render whose dependencies [detectDevTools,              *)
(* devToolsOpen, logViolation] differ from those of the last run, after    *)
(* running the cleanup the last run returned; it runs the cleanup on       *)
(* unmount.  logViolation changes with deviceId.  A state update made by a *)
(* callback is committed in a later step, so the intervals of the last run *)
(* can fire in between with the values they closed over.                   *)
(***************************************************************************)
\* the violations logged in a run of the hook model, at most
MaxHookViolations == 3

\* the dependencies of the DevTools effect in the render of state h
DevToolsDeps(h) == <<h.detectDevTools, h.devToolsOpen, h.deviceId>>

\* the values the callbacks of an effect run close over
Closure(h) == [devToolsOpen |-> h.devToolsOpen, deviceId |-> h.deviceId]

\* setInterval(callback, ...): the timer, with what its callback closed over
Interval(kind, closure) ==
    [kind |-> kind, devToolsOpen |-> closure.devToolsOpen, deviceId |-> closure.deviceId]

\* checkDevTools(): the window's outer and inner sizes differ by more than
\* the threshold exactly when the tools are docked
checkDevTools(h, ls, closure, e, t) ==
    LET isOpen == h.docked
    IN  IF isOpen # closure.devToolsOpen
        THEN [hook |-> [h EXCEPT !.devToolsOpen = isOpen],
              ls |-> IF isOpen
                     THEN logViolation(ls, "devtools_opened", closure.deviceId, e, t)
                     ELSE ls]
        ELSE [hook |-> h, ls |-> ls]

\* detectDebugger(): paused is whether the debugger statement held the
\* thread for more than 100 ms
detectDebugger(ls, closure, paused, e, t) ==
    IF paused THEN logViolation(ls, "debugger_detected", closure.deviceId, e, t) ELSE ls

\* a cleanup that forgets the debugger interval
clearDevToolsIntervalOnly(intervals) ==
    SelectSeq(intervals, LAMBDA timer : timer.kind # "devtools")

\* the cleanup: clearInterval(devToolsCheckInterval); clearInterval(debuggerInterval)
clearIntervals(intervals) ==
    SelectSeq(intervals, LAMBDA timer : timer.kind \notin {"devtools", "debugger"})

\* the DevTools effect run for the render of state h, after the cleanup of
\* the last run
runDevToolsEffect(h, ls, e, t) ==
    LET cleaned == [h EXCEPT !.intervals = clearIntervals(@), !.deps = Some(DevToolsDeps(h))]
        set == [cleaned EXCEPT
                   !.intervals = @ \o << Interval("devtools", Closure(h)),
                                         Interval("debugger", Closure(h)) >>]
    IN  IF ~h.detectDevTools THEN [hook |-> cleaned, ls |-> ls]
        ELSE checkDevTools(set, ls, Closure(h), e, t)

\* the hook model starts with the identity stored and nothing logged
InitHook ==
    /\ localStorage = ThisDevice.ls
    /\ env = EnvOf(0, "undefined")
    /\ now = 0
    /\ requests = <<>>
    /\ blocked = FALSE
    /\ blockUntil = 0
    /\ calls = <<>>
    /\ fnCalls = 0
    /\ inflight = NoInflight
    /\ hook = Unmounted
    /\ last = NoCall

WithinHookBound(ls) == Len(getViolations(ls)) <= MaxHookViolations

\* the component mounts: first render and its effects
Mount(detectDevTools) ==
    LET rendered == [hook EXCEPT !.mounted = TRUE, !.detectDevTools = detectDevTools,
                                 !.devToolsOpen = FALSE, !.deviceId = EMPTY_DEVICE_ID]
        r == runDevToolsEffect(rendered, localStorage, env, now)
    IN  /\ ~hook.mounted
        /\ WithinHookBound(r.ls)
        /\ hook' = r.hook
        /\ localStorage' = r.ls
        /\ last' = [op |-> "mount"]
        /\ UNCHANGED <<env, now, limiterVars, inflight>>

\* a render whose dependencies have changed is committed: cleanup of the
\* last run, then the effect again
Commit ==
    LET r == runDevToolsEffect(hook, localStorage, env, now)
    IN  /\ hook.mounted
        /\ hook.deps # Some(DevToolsDeps(hook))
        /\ WithinHookBound(r.ls)
        /\ hook' = r.hook
        /\ localStorage' = r.ls
        /\ last' = [op |-> "commit"]
        /\ UNCHANGED <<env, now, limiterVars, inflight>>

\* the component unmounts: the cleanup of the last run
Unmount ==
    /\ hook.mounted
    /\ hook' = [Unmounted EXCEPT !.docked = hook.docked,
                                 !.intervals = clearIntervals(hook.intervals)]
    /\ last' = [op |-> "unmount"]
    /\ UNCHANGED <<localStorage, env, now, limiterVars, inflight>>

\* the parent renders the component with another detectDevTools option
SetDetectDevTools(detectDevTools) ==
    /\ hook.mounted
    /\ detectDevTools # hook.detectDevTools
    /\ hook' = [hook EXCEPT !.detectDevTools = detectDevTools]
    /\ last' = NoCall
    /\ UNCHANGED <<localStorage, env, now, limiterVars, inflight>>

\* getDeviceId().then(setDeviceId) resolves
ResolveDeviceId ==
    LET device == getDeviceId(localStorage, env, now)
    IN  /\ hook.mounted
        /\ hook.deviceId = EMPTY_DEVICE_ID
        /\ hook' = [hook EXCEPT !.deviceId = device.ret]
        /\ localStorage' = device.ls
        /\ last' = NoCall
        /\ UNCHANGED <<env, now, limiterVars, inflight>>

\* the user docks or closes the developer tools
ToggleDevTools ==
    /\ hook' = [hook EXCEPT !.docked = ~@]
    /\ last' = NoCall
    /\ UNCHANGED <<localStorage, env, now, limiterVars, inflight>>

\* timer i fires
Tick(i, paused) ==
    LET timer == hook.intervals[i]
        closure == [devToolsOpen |-> timer.devToolsOpen, deviceId |-> timer.deviceId]
        r == IF timer.kind = "devtools"
             THEN checkDevTools(hook, localStorage, closure, env, now)
             ELSE [hook |-> hook, ls |-> detectDebugger(localStorage, closure, paused, env, now)]
    IN  /\ timer.kind = "devtools" => ~paused
        /\ WithinHookBound(r.ls)
        /\ hook' = r.hook
        /\ localStorage' = r.ls
        /\ last' = [op |-> "tick", kind |-> timer.kind]
        /\ UNCHANGED <<env, now, limiterVars, inflight>>

NextHook ==
    \/ \E detectDevTools \in BOOLEAN : Mount(detectDevTools)
    \/ Commit
    \/ Unmount
    \/ \E detectDevTools \in BOOLEAN : SetDetectDevTools(detectDevTools)
    \/ ResolveDeviceId
    \/ ToggleDevTools
    \/ \E i \in 1..Len(hook.intervals), paused \in BOOLEAN : Tick(i, paused)

SpecHook == InitHook /\ [][NextHook]_vars

(***************************************************************************)
(* Key generation: generateLicenseKey() and the activation of the key it   *)
(* returns.                                                                *)
(***************************************************************************)
\* the 20 numbers of one generation: they start at a / RANDOM_DENOM and go
\* up by b / RANDOM_DENOM, wrapping below 1
Draws(a, b) == [i \in 1..20 |-> (a + b * (i - 1)) % RANDOM_DENOM]

\* the steps of the generations the application makes, and of the further
\* generations examined at the two ends of the range of Math.random()
DrawSteps == {7}
FurtherSteps == {0, 1, 5}

\* generateLicenseKey()
GenerateLicenseKey(a, b) ==
    /\ last' = [op |-> "generateLicenseKey", key |-> generateLicenseKey(Draws(a, b))]
    /\ UNCHANGED <<localStorage, env, now, limiterVars, inflight, hook>>

\* validateLicense(key) with the key just generated
ActivateGenerated ==
    LET rnd == RandomKey(localStorage)
        r == validateLicense(localStorage, Some(last.key), env, now, rnd)
    IN  /\ last.op = "generateLicenseKey"
        /\ localStorage' = r.ls
        /\ last' = [op |-> "validateLicense", licenseKey |-> Some(last.key), result |-> r.ret]
        /\ UNCHANGED <<env, now, limiterVars, inflight, hook>>

NextKeys ==
    \/ \E a \in 0..(RANDOM_DENOM - 1), b \in DrawSteps : GenerateLicenseKey(a, b)
    \/ ActivateGenerated
    \/ RevokeLicense

SpecKeys == Init /\ [][NextKeys]_vars

(***************************************************************************)
(* License manager: the properties.  A property of "validate()" is stated  *)
(* of the call made in a reachable state: Validate(k) is what              *)
(* validateLicense(k) returns there and the storage it leaves.             *)
(***************************************************************************)
\* what a load of the persisted state yields (None: absent, undecryptable or revoked)
LoadedFrom(ls) == getStoredLicense(ls, RandomKey(ls)).ret
Loaded == LoadedFrom(localStorage)

Validate(licenseKey) ==
    validateLicense(localStorage, licenseKey, env, now, RandomKey(localStorage))

\* the id getDeviceId() gives the caller in this state
CallerId == getDeviceId(localStorage, env, now).ret

\* the two persisted license entries: the encrypted payload and the tag
LicenseEntries(ls) == <<ls[LICENSE_KEY], ls[HASH_KEY]>>

\* the stored payload decrypts under the installation's key but the stored tag
\* is not the hash of it
Tampered(ls) ==
    /\ ls[LICENSE_KEY] # None /\ ls[HASH_KEY] # None /\ ls[EK_KEY] # None
    /\ ls[LICENSE_KEY][1].ek = ls[EK_KEY][1]
    /\ hashData(JsonParse(ls[LICENSE_KEY][1].plaintext)) # ls[HASH_KEY][1]

\* C1: after any sequence of activations, validate() calls from any device and
\* deactivateDevice() calls, the persisted license has at most maxDevices
\* current devices.
C1_DeviceCountWithinLimit ==
    Loaded # None => Len(Loaded[1].currentDevices) <= Loaded[1].maxDevices

\* C1 witness: the allowance is used up and validate() has just refused one
\* more device.
C1_Witness ==
    /\ last.op = "validateLicense"
    /\ last.result.error = Some(ERR_DEVICE_LIMIT)
    /\ Loaded # None
    /\ Len(Loaded[1].currentDevices) = Loaded[1].maxDevices
    /\ ~Includes(Loaded[1].currentDevices, CallerId)

\* an error that none of the other outcomes of validateLicense uses
ReportsTampering(result) ==
    /\ ~result.valid
    /\ result.error \notin
           {None, Some(ERR_FORMAT), Some(ERR_NO_LICENSE), Some(ERR_EXPIRED), Some(ERR_DEVICE_LIMIT)}

\* C5: when the persisted tag differs from the hash of the decrypted payload,
\* the next validate() removes the persisted license and tag and returns an
\* invalid result that reports tampering.
C5_TamperRevokesAndReports ==
    Tampered(localStorage) =>
        /\ LicenseEntries(Validate(None).ls) = <<None, None>>
        /\ ReportsTampering(Validate(None).ret)

\* the spec's notion of an expired license: expiresAt is set and has passed
HasPassed(lic, t) == lic.expiresAt # None /\ t > lic.expiresAt[1]

\* C6: validate() from a device that is not in currentDevices is refused with
\* the device-limit error when the allowance is used up, and otherwise appends
\* the device, re-persists the license with a fresh tag and returns Valid.
C6_DeviceAccounting ==
    \A licenseKey \in KeyArgs :
        (/\ Loaded # None
         /\ ~HasPassed(Loaded[1], now)
         /\ ~Includes(Loaded[1].currentDevices, CallerId))
        =>
        LET lic == Loaded[1]
            r == Validate(licenseKey)
            added == [lic EXCEPT !.currentDevices = Append(@, CallerId)]
        IN  IF Len(lic.currentDevices) >= lic.maxDevices
            THEN /\ r.ret = Invalid(ERR_DEVICE_LIMIT, None)
                 /\ LicenseEntries(r.ls) = LicenseEntries(localStorage)
            ELSE /\ r.ret.valid
                 /\ r.ret.license = Some(added)
                 /\ LoadedFrom(r.ls) = Some(added)
                 /\ r.ls[HASH_KEY] = Some(hashData(added))

\* C6 witness: a license activated on one device with maxDevices = 2 has just
\* accepted a second device.
C6_Witness ==
    /\ last.op = "validateLicense"
    /\ last.result.valid
    /\ Loaded # None
    /\ Loaded[1].maxDevices = 2
    /\ Len(Loaded[1].currentDevices) = 2
    /\ Loaded[1].currentDevices[2] = CallerId
    /\ Loaded[1].deviceId # CallerId

\* C7 as claimed: in every state, validateLicense(key) with a key that does not
\* match the grammar returns the format error and leaves the persisted license
\* state unchanged.  (Read in the claim's favour: the empty string, which gets
\* the "no license" error instead, is left out.)
C7_MalformedKeyAlwaysRejected ==
    \A key \in MalformedKeys \ {<<>>} :
        /\ Validate(Some(key)).ret = Invalid(ERR_FORMAT, None)
        /\ LicenseEntries(Validate(Some(key)).ls) = LicenseEntries(localStorage)

\* C7 as amended: when no license loads from the persisted state,
\* validateLicense(key) with a non-empty key that does not match the grammar
\* returns the format error and persists no license; the persisted license
\* entries are unchanged, except that entries that fail the integrity check
\* are removed by the load.
C7_MalformedKeyRejectedWhenNoLicense ==
    \A key \in MalformedKeys \ {<<>>} :
        Loaded = None =>
            LET r == Validate(Some(key))
            IN  /\ r.ret = Invalid(ERR_FORMAT, None)
                /\ LoadedFrom(r.ls) = None
                /\ LicenseEntries(r.ls) =
                       IF Tampered(localStorage) THEN <<None, None>>
                       ELSE LicenseEntries(localStorage)

\* C7 witness: an activation attempt with a malformed key has just been
\* rejected and nothing is persisted.
C7_Witness ==
    /\ last.op = "validateLicense"
    /\ last.licenseKey # None
    /\ ~isValidLicenseFormat(last.licenseKey[1])
    /\ last.result = Invalid(ERR_FORMAT, None)
    /\ LicenseEntries(localStorage) = <<None, None>>

\* C10: whenever the persisted license has expiresAt set and that time has
\* passed, validate() returns the invalid Expired result with daysRemaining 0.
C10_ExpiredIsRefused ==
    (Loaded # None /\ HasPassed(Loaded[1], now)) =>
        Validate(None).ret = Invalid(ERR_EXPIRED, Some(0))

\* the stored payload is a ciphertext that the installation's key (the stored
\* one, or the one generated when none is stored) does not decrypt
Undecryptable(ls) ==
    /\ ls[LICENSE_KEY] # None /\ ls[HASH_KEY] # None
    /\ ls[EK_KEY] = None \/ ls[LICENSE_KEY][1].ek # ls[EK_KEY][1]

\* C14: a persisted payload that cannot be decrypted is handled like an
\* integrity mismatch: the load fails, the persisted license and tag are
\* removed, and validate() returns what it returns for a tampered license.
C14_UndecryptableIsRevoked ==
    Undecryptable(localStorage) =>
        /\ Loaded = None
        /\ LicenseEntries(Validate(None).ls) = <<None, None>>
        /\ Validate(None).ret = Invalid(ERR_NO_LICENSE, None)

\* what does hold for an undecryptable payload: the load fails and validate()
\* answers as for a tampered license, but the entries stay
C14_UndecryptableFailsClosed ==
    Undecryptable(localStorage) =>
        /\ Loaded = None
        /\ LicenseEntries(Validate(None).ls) = LicenseEntries(localStorage)
        /\ Validate(None).ret = Invalid(ERR_NO_LICENSE, None)

\* the persisted license lists at least one device
HasDevice == Loaded # None => Len(Loaded[1].currentDevices) >= 1

C12_DeactivatedIsUnusable ==
    (last.op = "deactivateDevice" /\ last.result) =>
        /\ Loaded # None
        /\ ~Includes(Loaded[1].currentDevices, CallerId)
        /\ ~Validate(None).ret.valid

\* the first half of C12 alone
C12_DeactivateRemovesAndKeeps ==
    (last.op = "deactivateDevice" /\ last.result) =>
        /\ Loaded # None
        /\ ~Includes(Loaded[1].currentDevices, CallerId)

(***************************************************************************)
(* Rate limiter: the properties.                                           *)
(***************************************************************************)
\* every action name the limiter knows a limit for, and one it does not
AllActions == {"flashcard_view", "api_call", "export_data", "chapter_access", "general"}

\* every shape of the optional limit argument
AllLimits == {None} \cup {Some(n) : n \in -1..3}

securityLogs == getSecurityLogs(localStorage)

IsCall(c) == c.op = "canProceed"

\* calls i..j of the history are one run on a limiter without events: nothing
\* precedes call i but a reset(), all are canProceed calls for one action
\* with one effective limit, all made within one window of the first
FreshRun(hist, i, j) ==
    /\ i = 1 \/ hist[i - 1].op = "reset"
    /\ \A k \in i..j :
          /\ IsCall(hist[k])
          /\ hist[k].action = hist[i].action
          /\ EffectiveLimit(hist[k].action, hist[k].limit) =
                 EffectiveLimit(hist[i].action, hist[i].limit)
    /\ hist[j].time - hist[i].time < WINDOW_MS

\* C2: for one action with effective limit L >= 1 and a limiter without
\* events, each of the first L canProceed calls made within one window
\* returns true, and the (L+1)-th returns false, sets blocked, sets blockUntil
\* to now + BLOCK_DURATION and appends one violation record carrying the
\* count L.
C2_FirstLAllowedThenBlocked ==
    [][ LET n == Len(calls')
        IN  (n = Len(calls) + 1 /\ IsCall(calls'[n])) =>
                \A i \in 1..n :
                    LET L == EffectiveLimit(calls'[i].action, calls'[i].limit)
                        k == n - i + 1
                    IN  (FreshRun(calls', i, n) /\ L >= 1) =>
                            /\ k <= L =>
                                  /\ calls'[n].ret
                                  /\ ~blocked'
                                  /\ securityLogs' = securityLogs
                            /\ k = L + 1 =>
                                  /\ ~calls'[n].ret
                                  /\ blocked'
                                  /\ blockUntil' = now + BLOCK_DURATION
                                  /\ securityLogs' =
                                         Append(securityLogs,
                                                [timestamp |-> now,
                                                 action |-> calls'[n].action,
                                                 requestCount |-> L,
                                                 userAgent |-> env["userAgent"]])
      ]_vars

\* two calls allowed and the third, in the same window, refused and blocking
C2_Witness ==
    /\ Len(calls) = 3
    /\ FreshRun(calls, 1, 3)
    /\ EffectiveLimit(calls[1].action, calls[1].limit) = 2
    /\ calls[1].ret /\ calls[2].ret /\ ~calls[3].ret
    /\ last.op = "canProceed"
    /\ blocked
    /\ blockUntil = now + BLOCK_DURATION
    /\ Len(securityLogs) = 1
    /\ securityLogs[1].requestCount = 2

\* C3: while blocked is true and now < blockUntil, canProceed returns false
\* for every action name and every explicit limit.
C3_BlockedRefusesEveryAction ==
    (blocked /\ now < blockUntil) =>
        \A action \in AllActions, limit \in AllLimits :
            ~canProceed(limiter, localStorage, action, limit, env, now).ret

\* during a block, a call for another action than the one that caused the
\* block, with a generous explicit limit, has just been refused
C3_Witness ==
    /\ Len(calls) >= 2
    /\ blocked /\ now < blockUntil
    /\ last.op = "canProceed" /\ ~last.result
    /\ last.limit = Some(2)
    /\ \E i \in 1..(Len(calls) - 1) :
          /\ IsCall(calls[i]) /\ ~calls[i].ret
          /\ calls[i].action # last.action
          /\ calls[i].time + BLOCK_DURATION = blockUntil

\* what C4 says the first call after the block's end does
ResumesAfterBlock(action, limit) ==
    LET r == canProceed(limiter, localStorage, action, limit, env, now)
    IN  /\ r.ret
        /\ ~r.rl.blocked
        /\ r.rl.requests = <<[timestamp |-> now, action |-> action, count |-> 1]>>

\* C4 as stated: the first canProceed call made at now >= blockUntil after a
\* block clears the flag, discards every earlier event and is allowed,
\* leaving exactly the event of that call.
C4_FirstCallAfterBlockAllowed ==
    (blocked /\ now >= blockUntil) =>
        \A action \in AllActions, limit \in AllLimits : ResumesAfterBlock(action, limit)

\* C4, amended: the same, for the calls whose effective limit is at least 1.
C4_FirstCallAfterBlockAllowedPositiveLimit ==
    (blocked /\ now >= blockUntil) =>
        \A action \in AllActions, limit \in AllLimits :
            EffectiveLimit(action, limit) >= 1 => ResumesAfterBlock(action, limit)

\* allowed, refused and blocked, then allowed again at the block's end or
\* later, with one event retained
C4_Witness ==
    /\ Len(calls) = 3
    /\ \A i \in 1..3 : IsCall(calls[i])
    /\ calls[1].ret /\ ~calls[2].ret /\ calls[3].ret
    /\ calls[3].time >= calls[2].time + BLOCK_DURATION
    /\ last.op = "canProceed"
    /\ ~blocked
    /\ Len(requests) = 1

\* C8: the function returned by withRateLimit calls the wrapped operation
\* exactly when canProceed(action) returned true and detectBotBehavior()
\* then returned false; when canProceed refuses it throws the rate-limit
\* error, when the bot check fires it throws the automation error, and in
\* both cases the wrapped operation is not called.
C8_GateInvokesIffBothChecksPass ==
    [][ last'.op = "withRateLimit" =>
            LET check == canProceed(limiter, localStorage, last'.action, None, env, now)
                automated == detectBotBehavior(check.rl, now)
                passes == check.ret /\ ~automated
            IN  /\ fnCalls' = (IF passes THEN fnCalls + 1 ELSE fnCalls)
                /\ (last'.outcome = "invoked") <=> passes
                /\ ~check.ret => last'.outcome = RATE_LIMIT_ERROR
                /\ (check.ret /\ automated) => last'.outcome = AUTOMATION_ERROR
                /\ RATE_LIMIT_ERROR # AUTOMATION_ERROR
      ]_vars

\* the wrapped operation ran once, and a later call was allowed by canProceed
\* but stopped by the bot check
C8_Witness ==
    /\ last.op = "withRateLimit"
    /\ last.outcome = AUTOMATION_ERROR
    /\ fnCalls >= 1
    /\ calls[Len(calls)].ret

\* the limit C15 describes: the explicit argument when one is passed, else
\* the default of the action
SpecifiedLimit(action, limit) ==
    IF limit # None THEN limit[1]
    ELSE CASE action = "flashcard_view" -> 50
           [] action = "api_call" -> 100
           [] action = "export_data" -> 5
           [] action = "chapter_access" -> 20
           [] OTHER -> 100

\* the events of an action that a canProceed call at this instant counts
RetainedCount(action) ==
    IF blocked /\ now >= blockUntil THEN 0
    ELSE Cardinality({i \in 1..Len(requests) :
                         requests[i].action = action /\ now - requests[i].timestamp < WINDOW_MS})

\* a call outside a block decides by this limit
DecidesBy(action, limit, max) ==
    canProceed(limiter, localStorage, action, limit, env, now).ret <=> RetainedCount(action) < max

\* C15: canProceed(action, limit) decides by the explicit limit whenever one
\* is passed, whatever integer it is, and otherwise by the default of the
\* action: flashcard_view 50, api_call 100, export_data 5, chapter_access 20,
\* any other action 100.
C15_ExplicitLimitOverrides ==
    ~(blocked /\ now < blockUntil) =>
        \A action \in AllActions, limit \in AllLimits :
            DecidesBy(action, limit, SpecifiedLimit(action, limit))

\* the same for every explicit limit but 0
C15_NonZeroLimitOverrides ==
    ~(blocked /\ now < blockUntil) =>
        \A action \in AllActions, limit \in AllLimits \ {Some(0)} :
            DecidesBy(action, limit, SpecifiedLimit(action, limit))

\* the gaps between consecutive recorded events, all of them
Gaps == [i \in 1..(Len(requests) - 1) |-> requests[i + 1].timestamp - requests[i].timestamp]

\* the number of recorded events within the last 5 seconds
RecentCount ==
    Cardinality({i \in 1..Len(requests) : now - requests[i].timestamp < BURST_WINDOW_MS})

\* 10 or more consecutive gaps whose variance is below the threshold
SteadyRun ==
    \E i, j \in 1..Len(Gaps) :
        /\ j - i + 1 >= 10
        /\ LowVariance(SubSeq(Gaps, i, j))

\* C16: detectBotBehavior() returns true whenever the recorded events contain
\* 10 or more consecutive gaps whose variance is below the threshold, and
\* false for as many events whose gap variance is not below it when the
\* burst rule does not apply.
C16_SteadyGapsDetected ==
    /\ SteadyRun => detectBotBehavior(limiter, now)
    /\ (Len(Gaps) >= 10 /\ ~SteadyRun /\ RecentCount <= BURST_COUNT) =>
           ~detectBotBehavior(limiter, now)

\* the same with 11 gaps or more, all non-zero, taken together
C16_ElevenSteadyGapsDetected ==
    (Len(Gaps) > MIN_INTERVALS /\ \A i \in 1..Len(Gaps) : Gaps[i] # 0) =>
        /\ LowVariance(Gaps) => detectBotBehavior(limiter, now)
        /\ (~LowVariance(Gaps) /\ RecentCount <= BURST_COUNT) => ~detectBotBehavior(limiter, now)

\* C17: detectBotBehavior() returns true whenever more than 20 recorded
\* events, of any actions, lie within the last 5 seconds; with exactly 20 the
\* burst rule does not fire, and the answer is true only by the spacing rule.
C17_BurstOverTwenty ==
    /\ RecentCount > 20 => detectBotBehavior(limiter, now)
    /\ (RecentCount <= 20 /\ detectBotBehavior(limiter, now)) =>
           (Len(Intervals(requests)) > MIN_INTERVALS /\ LowVariance(Intervals(requests)))

\* 21 events of two actions within 5 seconds, and the gate has just refused
\* the 21st as automated
C17_Witness ==
    /\ RecentCount = 21
    /\ \E i, j \in 1..Len(requests) : requests[i].action # requests[j].action
    /\ last.op = "withRateLimit"
    /\ last.outcome = AUTOMATION_ERROR

(***************************************************************************)
(* Identity store: the properties.                                         *)
(***************************************************************************)
storedIdentity == getItem(localStorage, DEVICE_KEY)

\* similarity(stored.components, fresh.components), as matches out of total
Similarity ==
    calculateSimilarity(storedIdentity[1].components,
                        getDeviceFingerprint(env, now).components)

\* C9: with an identity stored, verifyDevice() returns true if and only if
\* the similarity is at least 0.8 (4/5).
C9_VerifyIffSimilarityAtLeastThreshold ==
    storedIdentity # None =>
        (verifyDevice(localStorage, env, now).ret <=>
            Similarity.matches * 5 >= 4 * Similarity.total)

\* verifyDevice() has just answered false at 8 matching attributes of 10
C9_EightOfTenRefused ==
    /\ storedIdentity # None
    /\ last.op = "verifyDevice" /\ ~last.result
    /\ Similarity.matches = 8 /\ Similarity.total = 10

(***************************************************************************)
(* Evidence logs: the properties.                                          *)
(***************************************************************************)
violations == getViolations(localStorage)

\* the last n entries of a sequence, in their order
KeepLast(seq, n) == IF Len(seq) > n THEN SubSeq(seq, Len(seq) - n + 1, Len(seq)) ELSE seq

\* log is what an append to the log before, capped at capacity, leaves: the
\* earlier entries in their order and with their content, less the oldest
\* when the log was full, then the new entry
AppendedWithin(before, log, capacity) ==
    /\ log # <<>>
    /\ log = KeepLast(Append(before, log[Len(log)]), capacity)

\* C13: each evidence log holds at most its capacity (100 protection
\* violations, 50 rate-limit events); an append to a full log evicts exactly
\* the oldest entry, the other entries keep their order and content, and
\* reading returns the log oldest-first.
C13_EvidenceLogsCapped ==
    [][ /\ Len(violations') <= VIOLATION_CAP
        /\ Len(securityLogs') <= LOG_CAP
        /\ last'.op = "logViolation" =>
               /\ AppendedWithin(violations, violations', VIOLATION_CAP)
               /\ violations'[Len(violations')].timestamp = now
               /\ violations'[Len(violations')].type = last'.type
        /\ (last'.op = "canProceed" /\ blocked' /\ ~blocked) =>
               /\ AppendedWithin(securityLogs, securityLogs', LOG_CAP)
               /\ securityLogs'[Len(securityLogs')].timestamp = now
        /\ last'.op = "getViolations" => last'.result = violations
        /\ last'.op = "getSecurityLogs" => last'.result = securityLogs
      ]_vars

\* the 101st violation and the 51st rate-limit event have been logged: both
\* logs are full, the oldest record of each is gone and the second oldest is
\* now the first
C13_Witness ==
    /\ Len(violations) = VIOLATION_CAP
    /\ violations[1] = PastViolations(VIOLATION_CAP)[2]
    /\ violations[VIOLATION_CAP].timestamp >= LOG_START
    /\ Len(securityLogs) = LOG_CAP
    /\ securityLogs[1] = PastSecurityLogs(LOG_CAP)[2]
    /\ securityLogs[LOG_CAP].timestamp >= LOG_START
    /\ last.op = "getViolations"

(***************************************************************************)
(* Identity store: registration and the persisted id.                      *)
(***************************************************************************)
\* the fingerprint a capture in this state yields
freshFingerprint == getDeviceFingerprint(env, now)

\* the record holds what this capture yields: its id, its time, and the
\* attributes that have a value
HoldsFresh(record) ==
    /\ record.id = freshFingerprint.id
    /\ record.timestamp = now
    /\ \A key \in ComponentKeySet :
          IF env[key] = "undefined" THEN key \notin DOMAIN record.components
          ELSE key \in DOMAIN record.components /\ record.components[key] = env[key]

\* C18: registerDevice() with no identity stored persists the captured
\* fingerprint and returns true; with one stored it returns false, and when
\* the fresh id differs from the stored id it leaves the stored record as
\* it is.
C18_RegisterKeepsMismatchedRecord ==
    LET r == registerDevice(localStorage, env, now)
    IN  IF storedIdentity = None
        THEN /\ r.ret
             /\ r.ls[DEVICE_KEY] # None
             /\ HoldsFresh(r.ls[DEVICE_KEY][1])
        ELSE /\ ~r.ret
             /\ freshFingerprint.id # storedIdentity[1].id => r.ls = localStorage

\* registerDevice() has just returned false on an environment whose id is
\* not the stored one, and the stored record is the earlier capture
C18_Witness ==
    /\ last.op = "registerDevice" /\ ~last.result
    /\ storedIdentity # None
    /\ storedIdentity[1].id # freshFingerprint.id
    /\ storedIdentity[1].timestamp < now

\* C19: once an identity is persisted, getDeviceId() returns its id and
\* stores nothing, and no getDeviceId / registerDevice / verifyDevice call,
\* whatever the environment has become, changes the persisted id; with none
\* persisted, getDeviceId() captures, persists and returns the new id.
C19_PersistedIdIsStable ==
    [][ /\ storedIdentity # None =>
               /\ storedIdentity' # None
               /\ storedIdentity'[1].id = storedIdentity[1].id
        /\ last'.op = "getDeviceId" =>
               IF storedIdentity # None
               THEN /\ last'.result = storedIdentity[1].id
                    /\ localStorage' = localStorage
               ELSE /\ last'.result = freshFingerprint.id
                    /\ storedIdentity' # None
                    /\ HoldsFresh(storedIdentity'[1])
      ]_vars

\* getDeviceId() has just returned the stored id on an environment that
\* would now be captured under another id
C19_Witness ==
    /\ last.op = "getDeviceId"
    /\ storedIdentity # None
    /\ last.result = storedIdentity[1].id
    /\ last.result # freshFingerprint.id
    /\ storedIdentity[1].timestamp < now

\* the capture time of the identity record a call leaves is the time of the
\* call
StampedNow(ls) == ls[DEVICE_KEY] # None /\ ls[DEVICE_KEY][1].timestamp = now

\* registerDevice() succeeds: nothing was stored, or the ids agree
RegisterSucceeds == storedIdentity = None \/ storedIdentity[1].id = freshFingerprint.id

\* C20: every successful registerDevice() and every successful
\* verifyDevice() sets the capture timestamp of the persisted identity
\* record to the time of the call.
C20_SuccessUpdatesTimestamp ==
    /\ RegisterSucceeds => StampedNow(registerDevice(localStorage, env, now).ls)
    /\ verifyDevice(localStorage, env, now).ret => StampedNow(verifyDevice(localStorage, env, now).ls)

\* the half of C20 about registerDevice()
C20_RegisterUpdatesTimestamp ==
    RegisterSucceeds => StampedNow(registerDevice(localStorage, env, now).ls)

\* C21: verifyDevice() with no identity stored persists a freshly captured
\* identity and returns true.
C21_FirstVerifyRegisters ==
    storedIdentity = None =>
        LET r == verifyDevice(localStorage, env, now)
        IN  /\ r.ret
            /\ r.ls[DEVICE_KEY] # None
            /\ HoldsFresh(r.ls[DEVICE_KEY][1])

\* verifyDevice() has just returned true and the stored record is the
\* capture of this instant, in an environment that has drifted from the
\* initial one
C21_Witness ==
    /\ last.op = "verifyDevice" /\ last.result
    /\ storedIdentity # None
    /\ HoldsFresh(storedIdentity[1])
    /\ env # EnvOf(0, "undefined")

(***************************************************************************)
(* Identity store: similarity and the id.                                  *)
(***************************************************************************)
AttributeValues == {"v0", "v1", "v8", "undefined"}

\* the keys of a, taken in the order of the capture, on which a and b agree
RECURSIVE CountMatches(_, _, _)
CountMatches(a, b, i) ==
    IF i > Len(ComponentKeys) THEN 0
    ELSE LET key == ComponentKeys[i]
         IN  (IF key \in DOMAIN a /\ key \in DOMAIN b /\ a[key] = b[key] THEN 1 ELSE 0)
                 + CountMatches(a, b, i + 1)

\* C24: similarity(a, b) is the number of keys k of a with a[k] = b[k] over
\* the number of keys of a, and lies in [0, 1]; changing one attribute on
\* which a and b agree lowers the number of matches by exactly one of N, so
\* from identical sets the similarity drops from N/N to (N-1)/N.
C24_SimilarityIsMatchRatio ==
    storedIdentity # None =>
        LET a == storedIdentity[1].components
            b == freshFingerprint.components
            score == calculateSimilarity(a, b)
        IN  /\ score.matches = CountMatches(a, b, 1)
            /\ score.total = Cardinality(DOMAIN a)
            /\ score.total > 0
            /\ 0 <= score.matches /\ score.matches <= score.total
            /\ \A key \in DOMAIN a, value \in AttributeValues :
                  (a[key] = b[key] /\ value # b[key]) =>
                      LET changed == calculateSimilarity(a, [b EXCEPT ![key] = value])
                      IN  /\ changed.total = score.total
                          /\ changed.matches = score.matches - 1

\* verifyDevice() has just compared a stored record of 10 attributes with an
\* environment that differs from it in exactly one of them
C24_Witness ==
    /\ last.op = "verifyDevice" /\ last.result
    /\ storedIdentity # None
    /\ Similarity.total = 10
    /\ Similarity.matches = 9

\* C25: the id is a function of the captured components alone: a capture
\* whose components are those of the stored record has the stored id,
\* whatever the time of the capture and whatever is stored, and captures of
\* one environment at different times have one id.
C25_IdIsFunctionOfComponents ==
    /\ \A e \in Envs, t1, t2 \in 0..MaxDeviceTime :
          getDeviceFingerprint(e, t1).id = getDeviceFingerprint(e, t2).id
    /\ (storedIdentity # None
           /\ storedIdentity[1].components = JsonComponents(freshFingerprint.components))
       => storedIdentity[1].id = freshFingerprint.id

\* a record captured at an earlier instant, and a capture now of the same
\* components: registerDevice() has found the ids equal and kept the record
\* current
C25_Witness ==
    /\ last.op = "registerDevice" /\ ~last.result
    /\ storedIdentity # None
    /\ storedIdentity[1].id = freshFingerprint.id
    /\ storedIdentity[1].timestamp = now
    /\ now > 0

(***************************************************************************)
(* Feature gating and half-present licenses.                               *)
(***************************************************************************)
\* both license entries are stored, the payload decrypts under the stored
\* installation key and the stored tag is the hash of it
IntegrityValid(ls) ==
    /\ ls[LICENSE_KEY] # None /\ ls[HASH_KEY] # None /\ ls[EK_KEY] # None
    /\ ls[LICENSE_KEY][1].ek = ls[EK_KEY][1]
    /\ hashData(JsonParse(ls[LICENSE_KEY][1].plaintext)) = ls[HASH_KEY][1]

PersistedLicense(ls) == JsonParse(ls[LICENSE_KEY][1].plaintext)

HasFeatureNow(feature) == hasFeature(localStorage, feature, now, RandomKey(localStorage))

\* C22: hasFeature(tag) is true iff an integrity-valid license is persisted
\* and tag is one of its features; it is false with no license persisted, and
\* the answer is the same whatever the expiry of the license and whether or
\* not the caller's device is among its current devices.
C22_HasFeatureIffValidAndListed ==
    \A feature \in FeatureTags \cup {"advanced_analytics"} :
        /\ HasFeatureNow(feature).ret <=>
               /\ IntegrityValid(localStorage)
               /\ Includes(PersistedLicense(localStorage).features, feature)
        /\ LicenseEntries(localStorage) = <<None, None>> => ~HasFeatureNow(feature).ret

\* hasFeature() has just answered true from a license that is past its expiry
\* and does not list the caller's device
C22_Witness ==
    /\ last.op = "hasFeature" /\ last.result
    /\ Loaded # None
    /\ HasPassed(Loaded[1], now)
    /\ ~Includes(Loaded[1].currentDevices, CallerId)

\* hasFeature() has just answered false for a feature that an integrity-valid
\* persisted license does not list
C22_RefusedWitness ==
    /\ last.op = "hasFeature" /\ ~last.result
    /\ IntegrityValid(localStorage)
    /\ ~Includes(PersistedLicense(localStorage).features, last.feature)

\* exactly one of the two license entries is stored
HalfPresent(ls) == (ls[LICENSE_KEY] = None) # (ls[HASH_KEY] = None)

\* C23: with either license entry missing the license loads as absent:
\* validateLicense() without a key returns the invalid 'no license' result,
\* hasFeature() returns false, and neither changes the storage.
C23_MissingEntryIsNoLicense ==
    (localStorage[LICENSE_KEY] = None \/ localStorage[HASH_KEY] = None) =>
        /\ Loaded = None
        /\ Validate(None).ret = Invalid(ERR_NO_LICENSE, None)
        /\ Validate(None).ls = localStorage
        /\ \A feature \in FeatureTags :
              /\ ~HasFeatureNow(feature).ret
              /\ HasFeatureNow(feature).ls = localStorage

\* validateLicense() without a key has just reported 'no license' on a store
\* that holds one of the two entries and not the other
C23_Witness ==
    /\ HalfPresent(localStorage)
    /\ last.op = "validateLicense" /\ last.licenseKey = None
    /\ last.result = Invalid(ERR_NO_LICENSE, None)

(***************************************************************************)
(* Concurrent license calls against their serial executions.               *)
(***************************************************************************)
AllReturned ==
    /\ inflight.procs # <<>>
    /\ \A i \in 1..Len(inflight.procs) : inflight.procs[i].pc = "done"

\* the orders in which n calls can run one after another
Orders(n) == {order \in [1..n -> 1..n] : \A i, j \in 1..n : order[i] = order[j] => i = j}

\* call p run to completion on ls, with nothing in between
RunAlone(ls, p) ==
    IF p.op = "validateLicense"
    THEN validateLicense(ls, p.licenseKey, env, now, RandomKey(ls))
    ELSE deactivateDevice(ls, env, now, RandomKey(ls))

\* the calls run one after another in the given order, from the k-th on:
\* the storage left and what each call returned
RECURSIVE Serial(_, _, _, _, _)
Serial(ls, procs, order, k, results) ==
    IF k > Len(procs) THEN [ls |-> ls, results |-> results]
    ELSE LET r == RunAlone(ls, procs[order[k]])
         IN  Serial(r.ls, procs, order, k + 1, [results EXCEPT ![order[k]] = Some(r.ret)])

SerialOutcome(order) ==
    Serial(inflight.start, inflight.procs, order, 1, [i \in 1..Len(inflight.procs) |-> None])

\* C26: when concurrently started validateLicense and deactivateDevice calls
\* have all returned, what they returned and the license left persisted are
\* those of the same calls run one after another in some order.
C26_CallsAreSerializable ==
    AllReturned =>
        \E order \in Orders(Len(inflight.procs)) :
            /\ \A i \in 1..Len(inflight.procs) :
                  inflight.procs[i].result = SerialOutcome(order).results[i]
            /\ Loaded = LoadedFrom(SerialOutcome(order).ls)

\* C26, the case the claim names: no two calls each return Valid with
\* licenses of different keys.
C26_NoTwoLicensesValid ==
    \A i, j \in 1..Len(inflight.procs) :
        LET a == inflight.procs[i]
            b == inflight.procs[j]
        IN  (/\ a.op = "validateLicense" /\ b.op = "validateLicense"
             /\ a.pc = "done" /\ b.pc = "done"
             /\ a.result[1].valid /\ b.result[1].valid)
            => a.result[1].license[1].key = b.result[1].license[1].key

\* a call that runs with no other call in flight returns what the function
\* returns as a whole and leaves the storage it leaves
C26_AloneIsAtomic ==
    (Len(inflight.procs) = 1 /\ AllReturned) =>
        /\ inflight.procs[1].result = Some(RunAlone(inflight.start, inflight.procs[1]).ret)
        /\ localStorage = RunAlone(inflight.start, inflight.procs[1]).ls

(***************************************************************************)
(* Rate limiter: what is retained as time passes, and refusals during a    *)
(* block.                                                                  *)
(***************************************************************************)
\* C27: in every reachable state of the limiter, however much time has
\* passed since the last call, every retained event is younger than the
\* window: now - timestamp < 60000.
C27_RetainedEventsWithinWindow ==
    \A i \in 1..Len(requests) : now - requests[i].timestamp < WINDOW_MS

\* C27, at the calls: a canProceed call that is not refused for a block
\* leaves only events younger than the window
C27_EvictedAtEachCheck ==
    [][(last'.op = "canProceed" /\ calls' # calls /\ ~StillBlocked(limiter, now)) =>
           \A i \in 1..Len(requests') : now - requests'[i].timestamp < WINDOW_MS]_vars

\* C28: a canProceed call made while blocked (now < blockUntil) returns false
\* and leaves the retained events, blocked, blockUntil and the security log
\* as they were; a canProceed call appends one record to the security log
\* when it starts a block and none otherwise, so a block episode has exactly
\* one record.
C28_BlockedDenialChangesNothing ==
    [][(last'.op = "canProceed" /\ calls' # calls) =>
           /\ StillBlocked(limiter, now) =>
                 /\ ~last'.result
                 /\ UNCHANGED <<requests, blocked, blockUntil, localStorage>>
           /\ LET startsBlock == ~StillBlocked(limiter, now) /\ blocked'
              IN  /\ startsBlock =>
                        /\ Len(getSecurityLogs(localStorage')) = Len(securityLogs) + 1
                        /\ blockUntil' = now + BLOCK_DURATION
                  /\ ~startsBlock => getSecurityLogs(localStorage') = securityLogs]_vars

\* an allowed call, the call that started the block, and a later call refused
\* during that block: one record in the security log, the block not extended
C28_Witness ==
    /\ Len(calls) = 3
    /\ IsCall(calls[1]) /\ calls[1].ret
    /\ IsCall(calls[2]) /\ ~calls[2].ret
    /\ IsCall(calls[3]) /\ ~calls[3].ret
    /\ calls[3].time > calls[2].time
    /\ blocked /\ now < blockUntil
    /\ blockUntil = calls[2].time + BLOCK_DURATION
    /\ Len(securityLogs) = 1

(***************************************************************************)
(* Anomalies and the evidence log.                                         *)
(***************************************************************************)
\* the records persisted as evidence: the security logs and the violations
EvidenceCount(ls) == Len(getSecurityLogs(ls)) + Len(getViolations(ls))

\* C29: an anomaly detected by any component appends a record to the
\* evidence log; for the license manager: a validateLicense() that finds the
\* stored tag not to be the hash of the payload refuses the license and
\* leaves one more record than before.
C29_TamperIsLogged ==
    Tampered(localStorage) =>
        /\ LoadedFrom(Validate(None).ls) = None
        /\ EvidenceCount(Validate(None).ls) = EvidenceCount(localStorage) + 1

\* C29, for the identity store: registerDevice() that finds the fresh id to
\* differ from the stored id leaves one more record than before
C29_MismatchIsLogged ==
    (storedIdentity # None /\ storedIdentity[1].id # freshFingerprint.id) =>
        EvidenceCount(registerDevice(localStorage, env, now).ls) = EvidenceCount(localStorage) + 1

\* C29, for the rate limiter: a canProceed call that starts a block leaves
\* one more record than before
C29_BlockIsLogged ==
    [][(last'.op = "canProceed" /\ calls' # calls /\ ~StillBlocked(limiter, now) /\ blocked') =>
           EvidenceCount(localStorage') = EvidenceCount(localStorage) + 1]_vars

(***************************************************************************)
(* The DevTools effect's intervals.                                        *)
(***************************************************************************)
TimersOf(h, kind) == {i \in 1..Len(h.intervals) : h.intervals[i].kind = kind}

LoggedTypes == {violations[i].type : i \in 1..Len(violations)}

\* C30: the dev-tools-size check and the debugger probe are cleared when the
\* hook unmounts and when its effect runs again: after every step at most
\* one timer of each kind is set, every timer set belongs to the last effect
\* run, none is set while the hook is unmounted or detection is off in the
\* committed render, and no step between unmounted states adds a violation.
C30_IntervalsClearedOnTeardown ==
    [][/\ \A kind \in {"devtools", "debugger"} : Cardinality(TimersOf(hook', kind)) <= 1
       /\ \A i \in 1..Len(hook'.intervals) :
             /\ hook'.deps # None
             /\ hook'.deps[1][1]
             /\ hook'.intervals[i].devToolsOpen = hook'.deps[1][2]
             /\ hook'.intervals[i].deviceId = hook'.deps[1][3]
       /\ ~hook'.mounted => hook'.intervals = <<>>
       /\ (~hook.mounted /\ ~hook'.mounted) => getViolations(localStorage') = violations]_vars

\* the hook has just been unmounted after both timers logged: the debugger
\* probe fired, the effect ran again when the tools were detected, and no
\* timer is left
C30_Witness ==
    /\ last.op = "unmount"
    /\ ~hook.mounted
    /\ hook.intervals = <<>>
    /\ hook.docked
    /\ LoggedTypes = {"devtools_opened", "debugger_detected"}
    /\ \E i \in 1..Len(violations) : violations[i].deviceId # EMPTY_DEVICE_ID

(***************************************************************************)
(* Days remaining.                                                         *)
(***************************************************************************)
\* d is ceil(ms / 86400000): the least whole number of days that covers ms
IsCeilDays(d, ms) == d * DAY_MS >= ms /\ (d - 1) * DAY_MS < ms

\* C31: when validateLicense() returns valid for a license whose expiresAt is
\* set, daysRemaining is ceil((expiresAt - now) / 86400000); when expiresAt
\* is null it is left undefined.
C31_DaysRemainingIsCeil ==
    LET result == Validate(None).ret
    IN  result.valid =>
            IF result.license[1].expiresAt = None
            THEN result.daysRemaining = None
            ELSE /\ result.daysRemaining # None
                 /\ IsCeilDays(result.daysRemaining[1], result.license[1].expiresAt[1] - now)

\* C31, for every expiresAt other than 0
C31_DaysRemainingIsCeilNonZero ==
    LET result == Validate(None).ret
    IN  (result.valid /\ result.license[1].expiresAt # Some(0)) =>
            IF result.license[1].expiresAt = None
            THEN result.daysRemaining = None
            ELSE /\ result.daysRemaining # None
                 /\ IsCeilDays(result.daysRemaining[1], result.license[1].expiresAt[1] - now)

\* validateLicense() has just returned valid with one day remaining for a
\* license that had two days remaining when it was issued
C31_OneDayLeft ==
    /\ last.op = "validateLicense" /\ last.result.valid
    /\ last.result.license[1].expiresAt = Some(DAY_MS + 2)
    /\ last.result.daysRemaining = Some(1)
    /\ now = 2

(***************************************************************************)
(* Rate limiter: the bound on allowed calls.                               *)
(***************************************************************************)
\* the canProceed calls of the history for this action
CallsFor(action) == {k \in 1..Len(calls) : IsCall(calls[k]) /\ calls[k].action = action}

\* every call of the history for this action was made with effective limit L,
\* and the history holds no reset()
FixedLimit(action, L) ==
    /\ \A k \in 1..Len(calls) : calls[k].op # "reset"
    /\ \A k \in CallsFor(action) : EffectiveLimit(action, calls[k].limit) = L

\* the calls for this action that returned true from call i on and less than
\* a window after it
AllowedWithinWindowOf(action, i) ==
    {k \in CallsFor(action) :
        k >= i /\ calls[k].ret /\ calls[k].time - calls[i].time < WINDOW_MS}

\* C32: with one effective limit L >= 1 for an action and no reset(), at most
\* L canProceed calls for that action return true within any stretch of time
\* shorter than the window, whatever other calls are made and however the
\* calls are spaced.
C32_AtMostLAllowedPerWindow ==
    \A i \in 1..Len(calls) :
        IsCall(calls[i]) =>
            LET action == calls[i].action
                L == EffectiveLimit(action, calls[i].limit)
            IN  (L >= 1 /\ FixedLimit(action, L)) =>
                    Cardinality(AllowedWithinWindowOf(action, i)) <= L

\* three calls with limit 2 all allowed, the third one window after the
\* first and half a window after the second
C32_Witness ==
    /\ Len(calls) = 3
    /\ \E action \in AllActions :
          /\ FixedLimit(action, 2)
          /\ CallsFor(action) = {1, 2, 3}
          /\ \A k \in 1..3 : calls[k].ret
    /\ calls[3].time - calls[1].time >= WINDOW_MS
    /\ calls[3].time - calls[2].time < WINDOW_MS
    /\ calls[2].time > calls[1].time

(***************************************************************************)
(* The gate: the order of its two checks.                                  *)
(***************************************************************************)
\* the limiter refuses a call for this action made now: a block is running,
\* or the action's default limit is used up
LimiterWouldRefuse(action) ==
    \/ blocked /\ now < blockUntil
    \/ RetainedCount(action) >= SpecifiedLimit(action, None)

EventsFor(reqs, action) == {i \in 1..Len(reqs) : reqs[i].action = action}

\* C33: in withRateLimit the limiter is asked before the bot check: a call
\* rejected for automation has had its event recorded, so it counts toward
\* the limit of its action; and when the limiter refuses a call on events
\* that the bot check flags, the rate-limit error is the one thrown.
C33_LimiterBeforeBotCheck ==
    [][(last'.op = "withRateLimit" /\ calls' # calls) =>
           LET action == last'.action
           IN  /\ last'.outcome = AUTOMATION_ERROR =>
                     /\ requests' # <<>>
                     /\ requests'[Len(requests')] =
                            [timestamp |-> now, action |-> action, count |-> 1]
                     /\ Cardinality(EventsFor(requests', action)) = RetainedCount(action) + 1
                     /\ fnCalls' = fnCalls
               /\ (LimiterWouldRefuse(action) /\ detectBotBehavior(limiter, now)) =>
                     /\ last'.outcome = RATE_LIMIT_ERROR
                     /\ fnCalls' = fnCalls]_vars

\* an export rejected for automation used up the export limit, and the next
\* export, on events the bot check flags, has been rejected with the
\* rate-limit error
C33_Witness ==
    /\ last.op = "withRateLimit" /\ last.action = "export_data"
    /\ last.outcome = RATE_LIMIT_ERROR
    /\ Len(calls) = 2
    /\ calls[1].action = "export_data" /\ calls[1].ret
    /\ ~calls[2].ret
    /\ fnCalls = 0
    /\ detectBotBehavior(limiter, now)
    /\ Cardinality(EventsFor(requests, "export_data")) = getActionLimit("export_data")

(***************************************************************************)
(* The persisted payload and its tag.                                      *)
(***************************************************************************)
\* the payload and the tag are both absent, or both present with the payload
\* decrypting under the installation key to a value whose hash is the tag
EntriesConsistent(ls) == LicenseEntries(ls) = <<None, None>> \/ IntegrityValid(ls)

\* the exported operations of the license manager that read or write the
\* persisted license
LicenseCalls == {"validateLicense", "deactivateDevice", "revokeLicense", "hasFeature", "storeLicense"}

\* C34: the license manager's own operations keep the persisted payload and
\* tag consistent: from a state where they are both absent, or both present
\* with the tag the hash of the decrypted payload, every validateLicense,
\* deactivateDevice, revokeLicense and hasFeature call (and every
\* storeLicense) leads to such a state; and a load of consistent present
\* entries returns the payload and removes nothing.
C34_EntriesStayConsistent ==
    [][(last'.op \in LicenseCalls /\ EntriesConsistent(localStorage)) =>
           /\ EntriesConsistent(localStorage')
           /\ IntegrityValid(localStorage) =>
                 getStoredLicense(localStorage, RandomKey(localStorage)) =
                     [ret |-> Some(PersistedLicense(localStorage)), ls |-> localStorage]]_vars

\* C34, with the calls interleaved at their awaits: the entries are
\* consistent in every state the concurrent calls reach
C34_ConsistentWhileInterleaved == EntriesConsistent(localStorage)

\* a license re-persisted by validateLicense() after it added a second
\* device: the stored tag is the hash of the stored payload
C34_Witness ==
    /\ last.op = "validateLicense" /\ last.result.valid
    /\ IntegrityValid(localStorage)
    /\ Len(PersistedLicense(localStorage).currentDevices) >= 2
    /\ Includes(PersistedLicense(localStorage).currentDevices, CallerId)

(***************************************************************************)
(* Refusals and repeated validation.                                       *)
(***************************************************************************)
\* C35: a validateLicense() call that returns the expired or the device-limit
\* error leaves the persisted payload and tag as they were: the license still
\* loads, unchanged, and the caller has not been added to its devices.
C35_RefusalLeavesLicense ==
    \A licenseKey \in KeyArgs :
        LET r == Validate(licenseKey)
        IN  (~r.ret.valid /\ r.ret.error \in {Some(ERR_EXPIRED), Some(ERR_DEVICE_LIMIT)}) =>
                /\ LicenseEntries(r.ls) = LicenseEntries(localStorage)
                /\ LicenseEntries(r.ls)[1] # None /\ LicenseEntries(r.ls)[2] # None
                /\ LoadedFrom(r.ls) = Loaded
                /\ Loaded # None

\* validateLicense() has just refused an expired license to a device that is
\* not among its devices, and the license is still persisted without it
C35_Witness ==
    /\ last.op = "validateLicense"
    /\ last.result.error = Some(ERR_EXPIRED)
    /\ Loaded # None
    /\ HasPassed(Loaded[1], now)
    /\ ~Includes(Loaded[1].currentDevices, CallerId)
    /\ Len(Loaded[1].currentDevices) < Loaded[1].maxDevices

\* validateLicense() has just refused a device for the device limit, and the
\* license is still persisted with its devices
C35_LimitWitness ==
    /\ last.op = "validateLicense"
    /\ last.result.error = Some(ERR_DEVICE_LIMIT)
    /\ Loaded # None
    /\ ~Includes(Loaded[1].currentDevices, CallerId)
    /\ Len(Loaded[1].currentDevices) = Loaded[1].maxDevices

\* the same call made again at once on what the first call left
ValidateAgain(licenseKey) ==
    LET first == Validate(licenseKey)
    IN  validateLicense(first.ls, licenseKey, env, now, RandomKey(first.ls))

\* C36: validateLicense() made twice in a row at one instant on one device,
\* with the same argument, returns the same result both times (validity,
\* error, license and days remaining), and the second call leaves storage as
\* the first left it.
C36_ValidateIsIdempotent ==
    \A licenseKey \in KeyArgs :
        /\ ValidateAgain(licenseKey).ret = Validate(licenseKey).ret
        /\ ValidateAgain(licenseKey).ls = Validate(licenseKey).ls

\* validateLicense() has just added the caller as a further device and
\* re-persisted the license; the same call again returns that result
C36_Witness ==
    /\ last.op = "validateLicense" /\ last.result.valid
    /\ Len(last.result.license[1].currentDevices) >= 2
    /\ last.result.license[1].currentDevices[Len(last.result.license[1].currentDevices)] = CallerId
    /\ Loaded = last.result.license
    /\ Validate(last.licenseKey).ret = last.result

(***************************************************************************)
(* Rate limiter: the queries.                                              *)
(***************************************************************************)
\* C37: detectBotBehavior() and getStatus() change nothing: the retained
\* events, blocked, blockUntil and the security log are after the call what
\* they were before it, also when events are older than the window and when
\* the block's end has passed.
C37_QueriesAreReadOnly ==
    [][last'.op \in {"detectBotBehavior", "getStatus"} =>
           UNCHANGED <<requests, blocked, blockUntil, localStorage>>]_vars

\* getStatus() has just answered on a limiter whose block is over and whose
\* event is older than the window: it counted no event, and the event and the
\* block are still there
C37_Witness ==
    /\ last.op = "getStatus"
    /\ last.result.requestCount = 0
    /\ last.result.blocked
    /\ requests # <<>>
    /\ \A i \in 1..Len(requests) : ~InWindow(requests[i], now)
    /\ blocked /\ now >= blockUntil

\* detectBotBehavior() has just answered on such a limiter
C37_BotCheckWitness ==
    /\ last.op = "detectBotBehavior"
    /\ requests # <<>>
    /\ \A i \in 1..Len(requests) : ~InWindow(requests[i], now)
    /\ blocked /\ now >= blockUntil

(***************************************************************************)
(* Generated keys.                                                         *)
(***************************************************************************)
\* C38: every key generateLicenseKey() returns is accepted by
\* isValidLicenseFormat, whatever numbers Math.random() gives; activated on a
\* store without a license it is never refused for its format.
C38_GeneratedKeysAreWellFormed ==
    /\ last.op = "generateLicenseKey" =>
          /\ isValidLicenseFormat(last.key)
          /\ validateLicense(EmptyStorage, Some(last.key), env, now, RandomKey(EmptyStorage)).ret.valid
    /\ \A a \in {0, RANDOM_DENOM - 1}, b \in FurtherSteps :
          isValidLicenseFormat(generateLicenseKey(Draws(a, b)))

\* a key generated from draws that reach the last character of the alphabet
\* has been activated
C38_Witness ==
    /\ last.op = "validateLicense" /\ last.result.valid
    /\ last.licenseKey # None
    /\ \E i \in 1..Len(last.licenseKey[1]) : last.licenseKey[1][i] = "9"
    /\ \E i \in 1..Len(last.licenseKey[1]) : last.licenseKey[1][i] = "A"
    /\ Loaded # None /\ Loaded[1].key = last.licenseKey[1]

====
